---- MODULE Spec2Model ----
(***************************************************************************)
(* Model of es_flame_graph (chinwe/es-flame-graph).                        *)
(*                                                                         *)
(* The state machine follows TasksParser.parse_text and then               *)
(* FlameGraphGenerator.generate: the raw task objects that _extract_tasks  *)
(* yields are parsed (_parse_task), aggregated by parent/child hierarchy   *)
(* (_aggregate_by_hierarchy, _accumulate_task_time), converted to          *)
(* ThreadInfo records, merged per node (_merge_threads) and built into the *)
(* two-level frame tree (_build_tree).                                     *)
(*                                                                         *)
(* Representation.                                                         *)
(*  - action and description strings are sequences of one-character        *)
(*    strings, so that the bracket-stripping normalisation and int() are   *)
(*    computed character by character; node ids and task ids are only      *)
(*    compared for equality and emptiness and stay TLA+ strings.           *)
(*  - a JSON value is a record [kind, num, text].                          *)
(*  - times in milliseconds are kept as integer multiples of 10^-6 ms      *)
(*    (the precision of round(x, 6)), i.e. as a count of nanoseconds.      *)
(*  - cpu_percent is the exact fraction [num, den].                        *)
(***************************************************************************)
EXTENDS Integers, Sequences, FiniteSets, TLC

VARIABLES
    text,            \* parse_text: the input text (a sequence of characters)
    data_list,       \* parse_text: the JSON documents recovered from the text
    raw,             \* the task objects _extract_tasks returned, in order
    pc,              \* control point of parse_text / generate
    error,           \* the exception that ended the run ("" when none)
    all_tasks,       \* parse_text: the list of TaskInfo
    aggregated,      \* parse_text: result of _aggregate_by_hierarchy
    threads,         \* ParsedData.threads
    total_cpu_time,  \* ParsedData.total_cpu_time
    node_count,      \* ParsedData.node_count
    sort_by_cpu,     \* FlameGraphGenerator.sort_by_cpu
    merged,          \* generate: result of _merge_threads
    root,            \* generate: the frame tree of _build_tree
    width,           \* FlameGraphGenerator.width
    xpad,            \* FlameGraphGenerator.xpad
    minwidth,        \* FlameGraphGenerator.minwidth (a sequence of characters)
    color_theme,     \* FlameGraphGenerator.color_theme
    frames,          \* generate: result of _collect_frames
    filtered,        \* generate: result of _filter_by_minwidth
    hash_seed,       \* the string-hash salt of the process (PYTHONHASHSEED)
    rng,             \* state of the shared generator of the random module
    calls            \* the get_color calls made so far, with their results

\* The variables of parse_text, of the generator's configuration, of generate
\* and of the colour module.
textVars   == <<text, data_list>>
parseVars  == <<raw, all_tasks, aggregated, threads, total_cpu_time, node_count>>
configVars == <<sort_by_cpu, width, xpad, minwidth, color_theme>>
drawVars   == <<merged, root, frames, filtered>>
colorVars  == <<hash_seed, rng, calls>>

vars == <<textVars, parseVars, configVars, drawVars, colorVars, pc, error>>

(***************************************************************************)
(* Bounds of the model.                                                    *)
(***************************************************************************)
MaxTasks == 3
MaxFragments == 2
MaxCalls == 3
RngModulus == 8
MaxLabel == 5
MaxLines == 5

\* Depth at which the recursion of _accumulate_task_time is cut.  A descent
\* that never repeats a task visits distinct entries of task_map, so it is at
\* most MaxTasks deep; one level more means a task is on the call stack twice,
\* and the call, a function of (task, task_map) alone, then recurses until
\* the interpreter's recursion limit raises RecursionError.
RecursionLimit == MaxTasks + 1

(***************************************************************************)
(* Generic helpers.                                                        *)
(***************************************************************************)
Range(s) == {s[i] : i \in 1..Len(s)}

RECURSIVE SumSeq(_)
SumSeq(s) == IF s = <<>> THEN 0 ELSE s[1] + SumSeq(Tail(s))

\* All enumeration orders of a finite set (a Python set iterates in an order
\* that depends on the string hashes of the run).
Orders(S) ==
    {o \in [1..Cardinality(S) -> S] : \A i, j \in 1..Cardinality(S) : o[i] = o[j] => i = j}

\* All batches (sequences of length 0..MaxTasks) over a set of records.
Batches(recs) == UNION {[1..n -> recs] : n \in 0..MaxTasks}

(***************************************************************************)
(* JSON values and Python conversions.                                     *)
(***************************************************************************)
JAbsent  == [kind |-> "absent", num |-> 0, text |-> <<>>]   \* key not present
JNull    == [kind |-> "null",   num |-> 0, text |-> <<>>]
JList    == [kind |-> "list",   num |-> 0, text |-> <<>>]   \* a JSON array/object
JInf     == [kind |-> "inf",    num |-> 0, text |-> <<>>]   \* float infinity (1e999)
JInt(n)  == [kind |-> "int",    num |-> n, text |-> <<>>]
JStr(cs) == [kind |-> "str",    num |-> 0, text |-> cs]

\* dict.get(key, default)
Get(v, default) == IF v.kind = "absent" THEN default ELSE v

Digits == {"0", "1", "2", "3", "4", "5", "6", "7", "8", "9"}

DigitValue(c) ==
    CASE c = "0" -> 0 [] c = "1" -> 1 [] c = "2" -> 2 [] c = "3" -> 3
      [] c = "4" -> 4 [] c = "5" -> 5 [] c = "6" -> 6 [] c = "7" -> 7
      [] c = "8" -> 8 [] c = "9" -> 9

RECURSIVE LStrip(_)
LStrip(cs) == IF cs # <<>> /\ cs[1] = " " THEN LStrip(Tail(cs)) ELSE cs

RECURSIVE RStrip(_)
RStrip(cs) ==
    IF cs # <<>> /\ cs[Len(cs)] = " " THEN RStrip(SubSeq(cs, 1, Len(cs) - 1)) ELSE cs

RECURSIVE DigitsValue(_, _)
DigitsValue(cs, acc) ==
    IF cs = <<>> THEN acc ELSE DigitsValue(Tail(cs), 10 * acc + DigitValue(cs[1]))

\* int(<str>): surrounding whitespace stripped, an optional sign, then
\* decimal digits; anything else is a ValueError.
IntOfText(cs) ==
    LET s    == RStrip(LStrip(cs))
        neg  == s # <<>> /\ s[1] = "-"
        body == IF s # <<>> /\ s[1] \in {"-", "+"} THEN Tail(s) ELSE s
    IN  IF body = <<>> \/ \E i \in 1..Len(body) : body[i] \notin Digits
        THEN [exc |-> "ValueError", val |-> 0]
        ELSE [exc |-> "", val |-> IF neg THEN 0 - DigitsValue(body, 0)
                                         ELSE DigitsValue(body, 0)]

\* int(x) for a JSON value x.
IntOf(v) ==
    CASE v.kind = "int"  -> [exc |-> "", val |-> v.num]
      [] v.kind = "str"  -> IntOfText(v.text)
      [] v.kind = "inf"  -> [exc |-> "OverflowError", val |-> 0]
      [] OTHER           -> [exc |-> "TypeError", val |-> 0]

(***************************************************************************)
(* TasksParser._parse_task                                                 *)
(***************************************************************************)
UNKNOWN == <<"u", "n", "k", "n", "o", "w", "n">>

\* A raw task object is [_node_id, _task_id, parent_task_id, action,
\* description, running_time_in_nanos]; _node_id and _task_id are always set
\* by _extract_tasks; parent_task_id "" stands for the key being absent, which
\* task.get("parent_task_id", "") maps to "".
\* Variant of running_time_nanos_of: only ValueError is caught.
running_time_nanos_catching_ValueError(task) ==
    LET running_time_nanos_raw == Get(task.running_time_in_nanos, JInt(0))
        conv == IntOf(running_time_nanos_raw)
    IN  IF conv.exc = "ValueError"
        THEN [exc |-> "", val |-> 0]
        ELSE conv

\* try: int(task.get("running_time_in_nanos", 0))
\* except (ValueError, TypeError): 0
running_time_nanos_of(task) ==
    LET running_time_nanos_raw == Get(task.running_time_in_nanos, JInt(0))
        conv == IntOf(running_time_nanos_raw)
    IN  IF conv.exc \in {"ValueError", "TypeError"}
        THEN [exc |-> "", val |-> 0]
        ELSE conv

action_of(task) == Get(task.action, JStr(UNKNOWN)).text

parse_task(task) ==
    LET rt == running_time_nanos_of(task)
    IN  [exc  |-> rt.exc,
         info |-> [node_id            |-> task._node_id,
                   action             |-> action_of(task),
                   description        |-> Get(task.description, JStr(<<>>)).text,
                   running_time_nanos |-> rt.val,
                   task_id            |-> task._task_id,
                   parent_task_id     |-> task.parent_task_id]]

\* parse_text, the loop over the extracted tasks: every TaskInfo is appended
\* (a dataclass instance is truthy), an exception leaves the loop.
RECURSIVE parse_all(_, _, _)
parse_all(tasks, i, acc) ==
    IF i > Len(tasks) THEN [exc |-> "", tasks |-> acc]
    ELSE LET p == parse_task(tasks[i])
         IN  IF p.exc # "" THEN [exc |-> p.exc, tasks |-> acc]
             ELSE parse_all(tasks, i + 1, Append(acc, p.info))

(***************************************************************************)
(* TasksParser._normalize_action_for_merge: re.sub(r'\[.*?\]', '', a)      *)
(* followed by rstrip().                                                   *)
(***************************************************************************)
\* Index of the first "]" at or after position i, 0 when there is none.
RECURSIVE FindClose(_, _)
FindClose(cs, i) ==
    IF i > Len(cs) THEN 0 ELSE IF cs[i] = "]" THEN i ELSE FindClose(cs, i + 1)

RECURSIVE StripBrackets(_, _)
StripBrackets(cs, i) ==
    IF i > Len(cs) THEN <<>>
    ELSE IF cs[i] = "[" /\ FindClose(cs, i + 1) # 0
         THEN StripBrackets(cs, FindClose(cs, i + 1) + 1)
         ELSE <<cs[i]>> \o StripBrackets(cs, i + 1)

normalize_action_for_merge(action) == RStrip(StripBrackets(action, 1))

(***************************************************************************)
(* TasksParser._accumulate_task_time                                       *)
(***************************************************************************)
\* The merge loop: merged_children keyed by (normalized action, description),
\* kept in order of first insertion.
\* Variant of MergeTime: the colliding summary's time replaces the stored one.
MergeTimeOverwrite(old, t) == t

\* merged_children[key]["time"] += child["time"]
MergeTime(old, t) == old + t

RECURSIVE merge_children(_, _, _)
merge_children(children_info, i, merged_children) ==
    IF i > Len(children_info) THEN merged_children
    ELSE LET child == children_info[i]
             normalized_action == normalize_action_for_merge(child.action)
             hit == {k \in 1..Len(merged_children) :
                        /\ merged_children[k].normalized_action = normalized_action
                        /\ merged_children[k].description = child.description}
         IN  IF hit # {}
             THEN LET k == CHOOSE k \in hit : TRUE
                  IN  merge_children(children_info, i + 1,
                        [merged_children EXCEPT
                            ![k].time = MergeTime(merged_children[k].time, child.time)])
             ELSE merge_children(children_info, i + 1,
                        Append(merged_children,
                               [time              |-> child.time,
                                description       |-> child.description,
                                action            |-> child.action,
                                normalized_action |-> normalized_action]))

\* list.sort(key=..., reverse=True) is stable: equal keys keep their order.
\* stable_desc(keys) is the sequence of positions of keys in sorted order.
RECURSIVE stable_desc(_)
stable_desc(keys) ==
    IF keys = <<>> THEN <<>>
    ELSE LET n    == Len(keys)
             rest == stable_desc(SubSeq(keys, 1, n - 1))
             \* the last element goes after every element whose key is >= its own
             pos  == Cardinality({k \in 1..Len(rest) : keys[rest[k]] >= keys[n]})
         IN  SubSeq(rest, 1, pos) \o <<n>> \o SubSeq(rest, pos + 1, Len(rest))

sort_by_time_desc(s) ==
    LET idx == stable_desc([k \in 1..Len(s) |-> s[k].time])
    IN  [k \in 1..Len(s) |-> s[idx[k]]]

own_summary(task) ==
    IF task.description # <<>>
    THEN <<[time        |-> task.running_time_nanos,
            description |-> task.description,
            action      |-> task.action]>>
    ELSE <<>>

RECURSIVE accumulate_task_time(_, _, _)
RECURSIVE accumulate_children(_, _, _, _, _)

\* The loop over task_map.values(); an exception raised in a recursive call
\* leaves the loop.
accumulate_children(task, values, k, depth, acc) ==
    IF k > Len(values) \/ acc.overflow THEN acc
    ELSE IF values[k].parent_task_id = task.task_id
         THEN LET sub == accumulate_task_time(values[k], values, depth + 1)
              IN  accumulate_children(task, values, k + 1, depth,
                    [total_time    |-> acc.total_time + sub.total_time,
                     total_count   |-> acc.total_count + sub.total_count,
                     children_info |-> acc.children_info \o sub.children_info,
                     overflow      |-> sub.overflow])
         ELSE accumulate_children(task, values, k + 1, depth, acc)

accumulate_task_time(task, values, depth) ==
    IF depth > RecursionLimit
    THEN [total_time |-> 0, total_count |-> 0, children_info |-> <<>>, overflow |-> TRUE]
    ELSE LET acc == accumulate_children(task, values, 1, depth,
                        [total_time    |-> task.running_time_nanos,
                         total_count   |-> 1,
                         children_info |-> own_summary(task),
                         overflow      |-> FALSE])
         IN  IF acc.overflow THEN acc
             ELSE [acc EXCEPT !.children_info =
                       sort_by_time_desc(merge_children(acc.children_info, 1, <<>>))]

(***************************************************************************)
(* TasksParser._aggregate_by_hierarchy                                     *)
(***************************************************************************)
\* task_map = {t.task_id: t for t in tasks}: keys in order of first
\* insertion, each key bound to the last task that carries it.
RECURSIVE task_map_keys(_, _, _)
task_map_keys(tasks, i, keys) ==
    IF i > Len(tasks) THEN keys
    ELSE task_map_keys(tasks, i + 1,
            IF tasks[i].task_id \in Range(keys) THEN keys
            ELSE Append(keys, tasks[i].task_id))

task_map_index(tasks, id) ==
    CHOOSE i \in 1..Len(tasks) :
        /\ tasks[i].task_id = id
        /\ \A j \in (i + 1)..Len(tasks) : tasks[j].task_id # id

task_map_get(tasks, id) == tasks[task_map_index(tasks, id)]

task_map_values(tasks) ==
    LET keys == task_map_keys(tasks, 1, <<>>)
    IN  [k \in 1..Len(keys) |-> task_map_get(tasks, keys[k])]

is_root(tasks, task) ==
    \/ task.parent_task_id = ""
    \/ task.parent_task_id \notin {tasks[i].task_id : i \in 1..Len(tasks)}

root_task_ids(tasks) ==
    {tasks[i].task_id : i \in {i \in 1..Len(tasks) : is_root(tasks, tasks[i])}}

\* result[node_id][action] += ...; result is kept as the sequence of its
\* entries in order of first insertion of the (node_id, action) pair.
add_to_result(result, root_task, r) ==
    LET hit == {k \in 1..Len(result) :
                   /\ result[k].node_id = root_task.node_id
                   /\ result[k].action = root_task.action}
    IN  IF hit # {}
        THEN LET k == CHOOSE k \in hit : TRUE
             IN  [result EXCEPT
                    ![k].total_time = result[k].total_time + r.total_time,
                    ![k].task_count = result[k].task_count + r.total_count,
                    ![k].children   = result[k].children \o r.children_info]
        ELSE Append(result,
                    [node_id    |-> root_task.node_id,
                     action     |-> root_task.action,
                     total_time |-> r.total_time,
                     task_count |-> r.total_count,
                     children   |-> r.children_info])

\* The loop over root_task_ids; values is task_map.values().
RECURSIVE aggregate_roots(_, _, _, _, _)
aggregate_roots(tasks, values, root_order, k, acc) ==
    IF k > Len(root_order) \/ acc.overflow THEN acc
    ELSE LET root_task == task_map_get(tasks, root_order[k])
             r == accumulate_task_time(root_task, values, 1)
         IN  IF r.overflow THEN [acc EXCEPT !.overflow = TRUE]
             ELSE aggregate_roots(tasks, values, root_order, k + 1,
                    [acc EXCEPT !.result = add_to_result(acc.result, root_task, r)])

\* root_order is the order in which the set root_task_ids is iterated.
aggregate_by_hierarchy(tasks, root_order) ==
    aggregate_roots(tasks, task_map_values(tasks), root_order, 1,
                    [result |-> <<>>, overflow |-> FALSE])

(***************************************************************************)
(* TasksParser._to_thread_info_list and the rest of parse_text             *)
(***************************************************************************)
NanosPerMs == 1000000
Fixed6 == 1000000

\* x / 1_000_000 in units of 10^-6 ms; round(., 6) keeps exactly that unit.
nanos_to_ms(nanos) == (nanos * Fixed6) \div NanosPerMs

\* The values of a sequence in order of first occurrence (dict key order).
RECURSIVE first_occurrences(_, _, _)
first_occurrences(s, i, keys) ==
    IF i > Len(s) THEN keys
    ELSE first_occurrences(s, i + 1,
            IF s[i] \in Range(keys) THEN keys ELSE Append(keys, s[i]))

RECURSIVE Flatten(_)
Flatten(ss) == IF ss = <<>> THEN <<>> ELSE ss[1] \o Flatten(Tail(ss))

\* for node_id, actions in aggregated.items(): for action, data in actions.items()
result_items(result) ==
    LET nodes == first_occurrences([k \in 1..Len(result) |-> result[k].node_id], 1, <<>>)
        OfNode(n) == SelectSeq(result, LAMBDA e : e.node_id = n)
    IN  Flatten([k \in 1..Len(nodes) |-> OfNode(nodes[k])])

\* The description block: "Total: <time>", then one numbered line per child
\* with its time, its normalized action and its description.
description_of(data) ==
    [total |-> data.total_time,
     lines |-> [i \in 1..Len(data.children) |->
                  [rank        |-> i,
                   time        |-> data.children[i].time,
                   action      |-> normalize_action_for_merge(data.children[i].action),
                   description |-> data.children[i].description]]]

to_thread_info_list(result) ==
    LET items == result_items(result)
    IN  [k \in 1..Len(items) |->
            [node_id       |-> items[k].node_id,
             node_name     |-> items[k].node_id,
             cpu_time_ms   |-> nanos_to_ms(items[k].total_time),
             thread_name   |-> items[k].action,
             samples_count |-> items[k].task_count,
             stack_frames  |-> <<description_of(items[k])>>]]

(***************************************************************************)
(* FlameGraphGenerator.__init__                                            *)
(***************************************************************************)
DefaultWidth == 1920
DefaultHeight == 18
DefaultFontsize == 14
DefaultXpad == 10
DefaultMinwidth == <<"0", ".", "1">>
DefaultColorTheme == "hot"
DefaultSortByCpu == FALSE
FramePad == 1

\* A call without keyword arguments: no field of the record is read.
NoArgs ==
    [width |-> 0, xpad |-> 0, minwidth |-> <<>>, color_theme |-> "",
     sort_by_cpu |-> FALSE]

\* __init__ called with the keyword arguments named in given, whose values
\* are in args; every other parameter takes its default.
init_generator(given, args) ==
    /\ width = IF "width" \in given THEN args.width ELSE DefaultWidth
    /\ xpad = IF "xpad" \in given THEN args.xpad ELSE DefaultXpad
    /\ minwidth = IF "minwidth" \in given THEN args.minwidth ELSE DefaultMinwidth
    /\ color_theme = IF "color_theme" \in given THEN args.color_theme
                     ELSE DefaultColorTheme
    /\ sort_by_cpu = IF "sort_by_cpu" \in given THEN args.sort_by_cpu
                     ELSE DefaultSortByCpu

(***************************************************************************)
(* FlameGraphGenerator._merge_threads                                      *)
(***************************************************************************)
\* A fraction n/d.
Frac(n, d) == [num |-> n, den |-> d]

\* Variant of _merge_threads: the thread lists are sorted whatever the flag.
merge_threads_always_sorted(ths, sort) ==
    LET node_keys == first_occurrences([i \in 1..Len(ths) |-> ths[i].node_id], 1, <<>>)
        OfNode(n) == SelectSeq(ths, LAMBDA t : t.node_id = n)
        Names(n)  == LET ts == OfNode(n)
                     IN  first_occurrences([i \in 1..Len(ts) |-> ts[i].thread_name], 1, <<>>)
        Cpu(n, name) ==
            LET ts == SelectSeq(OfNode(n), LAMBDA t : t.thread_name = name)
            IN  SumSeq([i \in 1..Len(ts) |-> ts[i].cpu_time_ms])
        Samples(n, name) ==
            LET ts == SelectSeq(OfNode(n), LAMBDA t : t.thread_name = name)
            IN  SumSeq([i \in 1..Len(ts) |-> ts[i].samples_count])
        NodeTotal(n) == LET ns == Names(n)
                        IN  SumSeq([i \in 1..Len(ns) |-> Cpu(n, ns[i])])
        NodeSamples(n) == LET ns == Names(n)
                          IN  SumSeq([i \in 1..Len(ns) |-> Samples(n, ns[i])])
        ThreadList(n) ==
            LET ns == Names(n)
            IN  [i \in 1..Len(ns) |->
                    [thread_name   |-> ns[i],
                     cpu_time      |-> Cpu(n, ns[i]),
                     cpu_percent   |-> IF NodeTotal(n) > 0
                                       THEN Frac(Cpu(n, ns[i]) * 100, NodeTotal(n))
                                       ELSE Frac(0, 1),
                     samples_count |-> Samples(n, ns[i])]]
        Sorted(l) == LET idx == stable_desc([i \in 1..Len(l) |-> l[i].cpu_time])
                     IN  [i \in 1..Len(l) |-> l[idx[i]]]
    IN  [k \in 1..Len(node_keys) |->
            [node_id      |-> node_keys[k],
             threads      |-> Sorted(ThreadList(node_keys[k])),
             node_cpu     |-> NodeTotal(node_keys[k]),
             node_samples |-> NodeSamples(node_keys[k]),
             node_percent |-> Frac(100, 1)]]

merge_threads(ths, sort) ==
    LET node_keys == first_occurrences([i \in 1..Len(ths) |-> ths[i].node_id], 1, <<>>)
        OfNode(n) == SelectSeq(ths, LAMBDA t : t.node_id = n)
        Names(n)  == LET ts == OfNode(n)
                     IN  first_occurrences([i \in 1..Len(ts) |-> ts[i].thread_name], 1, <<>>)
        Cpu(n, name) ==
            LET ts == SelectSeq(OfNode(n), LAMBDA t : t.thread_name = name)
            IN  SumSeq([i \in 1..Len(ts) |-> ts[i].cpu_time_ms])
        Samples(n, name) ==
            LET ts == SelectSeq(OfNode(n), LAMBDA t : t.thread_name = name)
            IN  SumSeq([i \in 1..Len(ts) |-> ts[i].samples_count])
        NodeTotal(n) == LET ns == Names(n)
                        IN  SumSeq([i \in 1..Len(ns) |-> Cpu(n, ns[i])])
        NodeSamples(n) == LET ns == Names(n)
                          IN  SumSeq([i \in 1..Len(ns) |-> Samples(n, ns[i])])
        ThreadList(n) ==
            LET ns == Names(n)
            IN  [i \in 1..Len(ns) |->
                    [thread_name   |-> ns[i],
                     cpu_time      |-> Cpu(n, ns[i]),
                     cpu_percent   |-> IF NodeTotal(n) > 0
                                       THEN Frac(Cpu(n, ns[i]) * 100, NodeTotal(n))
                                       ELSE Frac(0, 1),
                     samples_count |-> Samples(n, ns[i])]]
        Sorted(l) == LET idx == stable_desc([i \in 1..Len(l) |-> l[i].cpu_time])
                     IN  [i \in 1..Len(l) |-> l[idx[i]]]
    IN  [k \in 1..Len(node_keys) |->
            [node_id      |-> node_keys[k],
             threads      |-> IF sort THEN Sorted(ThreadList(node_keys[k]))
                              ELSE ThreadList(node_keys[k]),
             node_cpu     |-> NodeTotal(node_keys[k]),
             node_samples |-> NodeSamples(node_keys[k]),
             node_percent |-> Frac(100, 1)]]

(***************************************************************************)
(* FlameGraphGenerator._build_tree                                         *)
(***************************************************************************)
ALL == <<"a", "l", "l">>
WHITE == "rgb(255,255,255)"

\* FrameNode with the dataclass defaults; the parent back-reference is the
\* nesting itself.
FrameNode(name, depth, value) ==
    [name |-> name, depth |-> depth, x |-> Frac(0, 1), y |-> 0, width |-> Frac(0, 1),
     value |-> value, samples_count |-> 0, percentage |-> Frac(0, 1),
     cpu_percent |-> Frac(0, 1), color |-> WHITE, end_time |-> Frac(0, 1),
     children |-> <<>>]

build_tree(mrg, total_time) ==
    LET ThreadFrame(t) ==
            [FrameNode(t.thread_name, 2, t.cpu_time) EXCEPT
                !.cpu_percent = t.cpu_percent,
                !.samples_count = t.samples_count]
        NodeFrame(nd) ==
            [FrameNode(nd.node_id, 1, nd.node_cpu) EXCEPT
                !.cpu_percent = nd.node_percent,
                !.percentage = nd.node_percent,
                !.samples_count = nd.node_samples,
                !.children = [i \in 1..Len(nd.threads) |-> ThreadFrame(nd.threads[i])]]
    IN  [FrameNode(ALL, 0, total_time) EXCEPT
            !.children = [k \in 1..Len(mrg) |-> NodeFrame(mrg[k])]]

(***************************************************************************)
(* json.loads on a sequence of characters.  A decoded value is a record    *)
(* [kind, num, text, items]: kind is "dict", "list", "str", "int", "bool"  *)
(* or "null"; items holds the (key, value) pairs of a dict in insertion    *)
(* order, or the elements of a list.                                       *)
(***************************************************************************)
Q == "\""
BACKSLASH == "\\"
Whitespace == {" ", "\t", "\n", "\r"}

PNull     == [kind |-> "null", num |-> 0, text |-> <<>>, items |-> <<>>]
PBool(b)  == [kind |-> "bool", num |-> IF b THEN 1 ELSE 0, text |-> <<>>, items |-> <<>>]
PInt(n)   == [kind |-> "int",  num |-> n, text |-> <<>>, items |-> <<>>]
PStr(cs)  == [kind |-> "str",  num |-> 0, text |-> cs,   items |-> <<>>]
PList(es) == [kind |-> "list", num |-> 0, text |-> <<>>, items |-> es]
PDict(ms) == [kind |-> "dict", num |-> 0, text |-> <<>>, items |-> ms]

\* The failed and the successful outcome of a parsing step; pos is the index
\* of the first character not consumed.
NoParse == [ok |-> FALSE, val |-> PNull, pos |-> 0]
Parsed(v, pos) == [ok |-> TRUE, val |-> v, pos |-> pos]

\* str.strip()
Strip(cs) ==
    LET inner == {i \in 1..Len(cs) : cs[i] \notin Whitespace}
    IN  IF inner = {} THEN <<>>
        ELSE SubSeq(cs, CHOOSE i \in inner : \A j \in inner : i <= j,
                        CHOOSE i \in inner : \A j \in inner : j <= i)

RECURSIVE SkipWs(_, _)
SkipWs(cs, i) ==
    IF i <= Len(cs) /\ cs[i] \in Whitespace THEN SkipWs(cs, i + 1) ELSE i

\* d[key] = val on a dict: a repeated key keeps its place and takes the new value.
DictPut(ms, key, val) ==
    IF \E k \in 1..Len(ms) : ms[k].key = key
    THEN [k \in 1..Len(ms) |-> IF ms[k].key = key THEN [key |-> key, val |-> val] ELSE ms[k]]
    ELSE Append(ms, [key |-> key, val |-> val])

HasKey(d, key) == \E k \in 1..Len(d.items) : d.items[k].key = key

Lookup(d, key) == d.items[CHOOSE k \in 1..Len(d.items) : d.items[k].key = key].val

\* The character an escape sequence \c stands for ("" when \c is no escape;
\* \uXXXX is not modelled).  Backspace and form feed are written BS and FF.
Unescape(c) ==
    CASE c = Q -> Q [] c = BACKSLASH -> BACKSLASH [] c = "/" -> "/"
      [] c = "n" -> "\n" [] c = "t" -> "\t" [] c = "r" -> "\r"
      [] c = "b" -> "BS" [] c = "f" -> "FF"
      [] OTHER -> ""

\* The body of a string literal whose opening quote is at position i - 1.
\* A character is escaped when an odd number of backslashes stands directly
\* before it inside the literal; the literal ends at the first quote that is
\* not escaped.
ParseString(cs, i) ==
    LET BsRun(k) ==
            LET other == {m \in i..(k - 1) : cs[m] # BACKSLASH}
                last  == IF other = {} THEN i - 1
                         ELSE CHOOSE m \in other : \A n \in other : n <= m
            IN  k - 1 - last
        Escaped(k) == BsRun(k) % 2 = 1
        closing == {j \in i..Len(cs) : cs[j] = Q /\ ~Escaped(j)}
    IN  IF closing = {} THEN NoParse
        ELSE LET j == CHOOSE m \in closing : \A n \in closing : m <= n
                 EscapeHead(k) == cs[k] = BACKSLASH /\ ~Escaped(k)
                 kept == {k \in i..(j - 1) : ~EscapeHead(k)}
                 Char(k) == IF Escaped(k) THEN Unescape(cs[k]) ELSE cs[k]
                 Nth(n) == CHOOSE k \in kept : Cardinality({m \in kept : m < k}) = n - 1
             IN  IF \E k \in kept : \/ Escaped(k) /\ Unescape(cs[k]) = ""
                                    \/ ~Escaped(k) /\ cs[k] \in {"\n", "\t", "\r", "BS", "FF"}
                 THEN NoParse
                 ELSE Parsed(PStr([n \in 1..Cardinality(kept) |-> Char(Nth(n))]), j + 1)

RECURSIVE DigitsEnd(_, _)
DigitsEnd(cs, i) == IF i <= Len(cs) /\ cs[i] \in Digits THEN DigitsEnd(cs, i + 1) ELSE i

\* An integer literal: an optional minus sign, then 0 or a digit string
\* without leading zero (fractions and exponents are not modelled).
ParseNumber(cs, i) ==
    LET neg   == cs[i] = "-"
        start == IF neg THEN i + 1 ELSE i
        stop  == IF start <= Len(cs) /\ cs[start] = "0" THEN start + 1
                 ELSE DigitsEnd(cs, start)
    IN  IF stop = start THEN NoParse
        ELSE LET n == DigitsValue(SubSeq(cs, start, stop - 1), 0)
             IN  Parsed(PInt(IF neg THEN 0 - n ELSE n), stop)

ParseLiteral(cs, i) ==
    LET Is(word) == /\ i + Len(word) - 1 <= Len(cs)
                    /\ SubSeq(cs, i, i + Len(word) - 1) = word
    IN  IF Is(<<"n", "u", "l", "l">>) THEN Parsed(PNull, i + 4)
        ELSE IF Is(<<"t", "r", "u", "e">>) THEN Parsed(PBool(TRUE), i + 4)
        ELSE IF Is(<<"f", "a", "l", "s", "e">>) THEN Parsed(PBool(FALSE), i + 5)
        ELSE NoParse

RECURSIVE ParseValue(_, _)
RECURSIVE ParseMembers(_, _, _)
RECURSIVE ParseElements(_, _, _)

\* The members of an object from position i, which holds the opening quote
\* of a key.
ParseMembers(cs, i, acc) ==
    IF i > Len(cs) \/ cs[i] # Q THEN NoParse
    ELSE LET key == ParseString(cs, i + 1)
         IN  IF ~key.ok THEN NoParse
             ELSE LET colon == SkipWs(cs, key.pos)
                  IN  IF colon > Len(cs) \/ cs[colon] # ":" THEN NoParse
                      ELSE LET v == ParseValue(cs, colon + 1)
                           IN  IF ~v.ok THEN NoParse
                               ELSE LET next == SkipWs(cs, v.pos)
                                        ms == DictPut(acc, key.val.text, v.val)
                                    IN  IF next > Len(cs) THEN NoParse
                                        ELSE IF cs[next] = "}" THEN Parsed(PDict(ms), next + 1)
                                        ELSE IF cs[next] = ","
                                             THEN ParseMembers(cs, SkipWs(cs, next + 1), ms)
                                        ELSE NoParse

\* The elements of an array from position i, which starts an element.
ParseElements(cs, i, acc) ==
    LET v == ParseValue(cs, i)
    IN  IF ~v.ok THEN NoParse
        ELSE LET next == SkipWs(cs, v.pos)
                 es == Append(acc, v.val)
             IN  IF next > Len(cs) THEN NoParse
                 ELSE IF cs[next] = "]" THEN Parsed(PList(es), next + 1)
                 ELSE IF cs[next] = "," THEN ParseElements(cs, next + 1, es)
                 ELSE NoParse

ParseValue(cs, i0) ==
    LET i == SkipWs(cs, i0)
    IN  IF i > Len(cs) THEN NoParse
        ELSE IF cs[i] = "{"
             THEN LET j == SkipWs(cs, i + 1)
                  IN  IF j <= Len(cs) /\ cs[j] = "}" THEN Parsed(PDict(<<>>), j + 1)
                      ELSE ParseMembers(cs, j, <<>>)
        ELSE IF cs[i] = "["
             THEN LET j == SkipWs(cs, i + 1)
                  IN  IF j <= Len(cs) /\ cs[j] = "]" THEN Parsed(PList(<<>>), j + 1)
                      ELSE ParseElements(cs, j, <<>>)
        ELSE IF cs[i] = Q THEN ParseString(cs, i + 1)
        ELSE IF cs[i] = "-" \/ cs[i] \in Digits THEN ParseNumber(cs, i)
        ELSE ParseLiteral(cs, i)

\* json.loads(cs): ok is FALSE where it raises JSONDecodeError.
json_loads(cs) ==
    LET v == ParseValue(cs, 1)
    IN  IF v.ok /\ SkipWs(cs, v.pos) > Len(cs) THEN v ELSE NoParse

(***************************************************************************)
(* TasksParser._parse_multiple_json                                        *)
(***************************************************************************)
\* One iteration of the loop over the characters; st is the record of the
\* locals result, brace_count, current, in_string and escape_next.
scan_char(st, char) ==
    IF st.escape_next
    THEN [st EXCEPT !.current = Append(@, char), !.escape_next = FALSE]
    ELSE IF char = BACKSLASH /\ st.in_string
    THEN [st EXCEPT !.escape_next = TRUE, !.current = Append(@, char)]
    ELSE IF char = Q
    THEN [st EXCEPT !.in_string = ~@, !.current = Append(@, char)]
    ELSE IF st.in_string
    THEN [st EXCEPT !.current = Append(@, char)]
    ELSE IF char = "{"
    THEN [st EXCEPT !.brace_count = @ + 1,
                    !.current = IF st.brace_count = 0 /\ Strip(st.current) # <<>>
                                THEN <<char>> ELSE Append(st.current, char)]
    ELSE IF char = "}"
    THEN IF st.brace_count - 1 = 0
         THEN LET obj == json_loads(Strip(Append(st.current, char)))
              IN  [st EXCEPT !.brace_count = 0,
                             !.current = <<>>,
                             !.result = IF obj.ok THEN Append(@, obj.val) ELSE @]
         ELSE [st EXCEPT !.brace_count = @ - 1, !.current = Append(@, char)]
    ELSE [st EXCEPT !.current = Append(@, char)]

\* for char in text: the locals after the characters at positions lo..hi.
\* The range is processed half by half, the first half being evaluated
\* before the second is entered, which keeps the evaluation shallow.
RECURSIVE scan(_, _, _, _)
scan(cs, lo, hi, st) ==
    IF lo > hi THEN st
    ELSE IF lo = hi THEN scan_char(st, cs[lo])
    ELSE LET mid == (lo + hi) \div 2
             first == scan(cs, lo, mid, st)
         IN  IF first.brace_count = st.brace_count
             THEN scan(cs, mid + 1, hi, first)
             ELSE scan(cs, mid + 1, hi, first)

parse_multiple_json(cs) ==
    scan(cs, 1, Len(cs), [result |-> <<>>, brace_count |-> 0, current |-> <<>>,
                          in_string |-> FALSE, escape_next |-> FALSE]).result

\* parse_text, lines 55-63: the documents recovered from the text.
load_documents(cs) ==
    LET stripped == Strip(cs)
        data == json_loads(stripped)
    IN  IF data.ok THEN <<data.val>> ELSE parse_multiple_json(stripped)

(***************************************************************************)
(* TasksParser._extract_tasks                                              *)
(***************************************************************************)
KeyNodes == <<"n", "o", "d", "e", "s">>
KeyTasks == <<"t", "a", "s", "k", "s">>
KeyAction == <<"a", "c", "t", "i", "o", "n">>
KeyDescription == <<"d", "e", "s", "c", "r", "i", "p", "t", "i", "o", "n">>
KeyParentTaskId ==
    <<"p", "a", "r", "e", "n", "t", "_", "t", "a", "s", "k", "_", "i", "d">>
KeyRunningTimeInNanos ==
    <<"r", "u", "n", "n", "i", "n", "g", "_", "t", "i", "m", "e", "_",
      "i", "n", "_", "n", "a", "n", "o", "s">>

\* The identifier a sequence of characters spells.
RECURSIVE Join(_)
Join(cs) == IF cs = <<>> THEN "" ELSE cs[1] \o Join(Tail(cs))

\* word occurs in cs as a substring (the `in` of two strings).
Contains(cs, word) ==
    \E i \in 1..(Len(cs) - Len(word) + 1) : SubSeq(cs, i, i + Len(word) - 1) = word

\* task.get(key) as the JSON value _parse_task reads (JAbsent when missing).
field_of(task, key) ==
    IF ~HasKey(task, key) THEN JAbsent
    ELSE LET v == Lookup(task, key)
         IN  CASE v.kind = "str"  -> JStr(v.text)
               [] v.kind = "int"  -> JInt(v.num)
               [] v.kind = "bool" -> JInt(v.num)
               [] v.kind = "null" -> JNull
               [] OTHER           -> JList

\* The task object after lines 181-183, as the record of the values that
\* _parse_task reads from it.  A parent_task_id that is no string can neither
\* be a key of task_map nor equal a task id, so it acts as a missing one.
task_object(node_id, task_id, task) ==
    [_node_id       |-> node_id,
     _task_id       |-> Join(task_id),
     parent_task_id |-> IF HasKey(task, KeyParentTaskId)
                           /\ Lookup(task, KeyParentTaskId).kind = "str"
                        THEN Join(Lookup(task, KeyParentTaskId).text)
                        ELSE "",
     action         |-> field_of(task, KeyAction),
     description    |-> field_of(task, KeyDescription),
     running_time_in_nanos |-> field_of(task, KeyRunningTimeInNanos)]

\* for task_id, task in node_tasks.items(): lines 180-184.
RECURSIVE extract_node_tasks(_, _, _, _)
extract_node_tasks(node_id, ms, k, acc) ==
    IF k > Len(ms) THEN [exc |-> "", tasks |-> acc]
    ELSE IF ms[k].val.kind # "dict" THEN [exc |-> "TypeError", tasks |-> acc]
    ELSE extract_node_tasks(node_id, ms, k + 1,
            Append(acc, task_object(node_id, ms[k].key, ms[k].val)))

\* for node_id, node_data in nodes_data.items(): lines 177-184.
RECURSIVE extract_nodes(_, _, _)
extract_nodes(ns, k, acc) ==
    IF k > Len(ns) THEN [exc |-> "", tasks |-> acc]
    ELSE LET node_data == ns[k].val
         IN  IF node_data.kind = "dict" /\ HasKey(node_data, KeyTasks)
             THEN LET node_tasks == Lookup(node_data, KeyTasks)
                  IN  IF node_tasks.kind # "dict"
                      THEN [exc |-> "AttributeError", tasks |-> acc]
                      ELSE LET r == extract_node_tasks(ns[k].key, node_tasks.items, 1, acc)
                           IN  IF r.exc # "" THEN r
                               ELSE extract_nodes(ns, k + 1, r.tasks)
             ELSE extract_nodes(ns, k + 1, acc)

\* _extract_tasks(data): `"nodes" in data` and data["nodes"] raise TypeError
\* on a number, null, a string that contains "nodes" and a list that holds
\* "nodes"; .items() raises AttributeError on what is no dict.
extract_tasks(data) ==
    CASE data.kind = "dict" ->
            IF HasKey(data, KeyNodes) /\ Lookup(data, KeyNodes).kind = "dict"
            THEN extract_nodes(Lookup(data, KeyNodes).items, 1, <<>>)
            ELSE extract_nodes(data.items, 1, <<>>)
      [] data.kind = "str" ->
            [exc |-> IF Contains(data.text, KeyNodes) THEN "TypeError" ELSE "AttributeError",
             tasks |-> <<>>]
      [] data.kind = "list" ->
            [exc |-> IF \E k \in 1..Len(data.items) : data.items[k] = PStr(KeyNodes)
                     THEN "TypeError" ELSE "AttributeError",
             tasks |-> <<>>]
      [] OTHER -> [exc |-> "TypeError", tasks |-> <<>>]

\* parse_text, lines 69-75: the tasks of every document, extracted and parsed
\* in order; extracted collects the task objects _extract_tasks returned.
RECURSIVE extract_and_parse(_, _, _, _)
extract_and_parse(docs, k, extracted, acc) ==
    IF k > Len(docs) THEN [exc |-> "", tasks |-> acc, extracted |-> extracted]
    ELSE LET e == extract_tasks(docs[k])
         IN  IF e.exc # ""
             THEN [exc |-> e.exc, tasks |-> acc, extracted |-> extracted]
             ELSE LET p == parse_all(e.tasks, 1, acc)
                  IN  IF p.exc # ""
                      THEN [exc |-> p.exc, tasks |-> p.tasks,
                            extracted |-> extracted \o e.tasks]
                      ELSE extract_and_parse(docs, k + 1, extracted \o e.tasks, p.tasks)

(***************************************************************************)
(* color.py.  A label is a sequence of characters, a theme a string, a     *)
(* colour the string that the f-string formats.  A draw of the generator   *)
(* is the fraction [num, den] in [0, 1).                                   *)
(*                                                                         *)
(* Neither the interpreter's string hash nor the random module is part of  *)
(* the repository.  hash() is a salted polynomial over the character       *)
(* codes: equal within a process, different from process to process.  The  *)
(* generator is a linear congruential one over RngModulus states:          *)
(* seed(h) sets the state, random() advances it and returns it scaled.     *)
(***************************************************************************)
\* The backtick, which a TLA+ string cannot hold, is written BT.
BACKTICK == "BT"

\* The printable ASCII characters in code order, from the space (code 32).
Printable ==
    <<" ", "!", Q, "#", "$", "%", "&", "'", "(", ")", "*", "+", ",", "-", ".", "/",
      "0", "1", "2", "3", "4", "5", "6", "7", "8", "9", ":", ";", "<", "=", ">", "?",
      "@", "A", "B", "C", "D", "E", "F", "G", "H", "I", "J", "K", "L", "M", "N", "O",
      "P", "Q", "R", "S", "T", "U", "V", "W", "X", "Y", "Z", "[", BACKSLASH, "]", "^", "_",
      BACKTICK, "a", "b", "c", "d", "e", "f", "g", "h", "i", "j", "k", "l", "m", "n", "o",
      "p", "q", "r", "s", "t", "u", "v", "w", "x", "y", "z", "{", "|", "}", "~">>

\* ord(c)
Ord(c) == 31 + CHOOSE k \in 1..Len(Printable) : Printable[k] = c

\* The mask of sum_namehash.  The source keeps the low 32 bits of the
\* interpreter's hash; the hash modelled here is 16 bits wide, so that every
\* intermediate product stays a machine integer of the checker.
HashMask == 65535

RECURSIVE string_hash(_, _, _)
string_hash(seed, cs, h) ==
    IF cs = <<>> THEN h
    ELSE string_hash(seed, Tail(cs), (31 * h + Ord(cs[1]) + seed) % (HashMask + 1))

\* hash(name) & 0xFFFFFFFF
sum_namehash(seed, name) == string_hash(seed, name, seed) % (HashMask + 1)

\* random.seed(h)
random_seed(h) == h % RngModulus

\* Variant of random.random(): the value drawn is not scaled into [0, 1).
random_random_unscaled(state) ==
    LET next == (5 * state + 3) % RngModulus
    IN  [state |-> next, value |-> Frac(next, 1)]

\* random.random(): the state after the draw and the value drawn.
random_random(state) ==
    LET next == (5 * state + 3) % RngModulus
    IN  [state |-> next, value |-> Frac(next, RngModulus)]

\* Variant of random_namehash: the generator is not seeded again.
random_namehash_unseeded(seed, name, state) == random_random(state)

\* random_namehash(name): random.seed(sum_namehash(name)); random.random()
random_namehash(seed, name, state) == random_random(random_seed(sum_namehash(seed, name)))

\* The values v1, v2, v3 of get_color and _get_color_by_type for one label:
\* three calls of random_namehash, one after the other.
three_draws(seed, name, state) ==
    LET d1 == random_namehash(seed, name, state)
        d2 == random_namehash(seed, name, d1.state)
        d3 == random_namehash(seed, name, d2.state)
    IN  <<d1, d2, d3>>

\* int(k * v) for a draw v
Scaled(k, v) == (k * v.num) \div v.den

\* f"rgb({r},{g},{b})"
Rgb(r, g, b) == "rgb(" \o ToString(r) \o "," \o ToString(g) \o "," \o ToString(b) \o ")"

color_hot(v1, v2, v3) == Rgb(205 + Scaled(50, v3), Scaled(230, v1), Scaled(55, v2))

color_mem(v1, v2, v3) == Rgb(0, 190 + Scaled(50, v2), Scaled(210, v1))

\* _get_color_by_type(type_, name): the colour and the generator state left.
get_color_by_type(type_, seed, name, state) ==
    LET d1 == random_namehash(seed, name, state)
        d2 == random_namehash(seed, name, d1.state)
        d3 == random_namehash(seed, name, d2.state)
        v1 == d1.value
    IN  [state |-> d3.state,
         color |->
           CASE type_ = "red"    -> Rgb(200 + Scaled(55, v1), 50 + Scaled(80, v1), 50 + Scaled(80, v1))
             [] type_ = "green"  -> Rgb(50 + Scaled(60, v1), 200 + Scaled(55, v1), 50 + Scaled(60, v1))
             [] type_ = "blue"   -> Rgb(80 + Scaled(60, v1), 80 + Scaled(60, v1), 205 + Scaled(50, v1))
             [] type_ = "yellow" -> Rgb(175 + Scaled(55, v1), 175 + Scaled(55, v1), 50 + Scaled(20, v1))
             [] type_ = "purple" -> Rgb(190 + Scaled(65, v1), 80 + Scaled(60, v1), 190 + Scaled(65, v1))
             [] type_ = "aqua"   -> Rgb(50 + Scaled(60, v1), 165 + Scaled(55, v1), 165 + Scaled(55, v1))
             [] type_ = "orange" -> Rgb(190 + Scaled(65, v1), 90 + Scaled(65, v1), 0)
             [] OTHER            -> "rgb(0,0,0)"]

StartsWith(cs, word) == Len(word) <= Len(cs) /\ SubSeq(cs, 1, Len(word)) = word

\* re.match(r"^(java|javax|jdk|net|org|com|io|sun)/", name)
JavaPackage(name) ==
    \E w \in {<<"j", "a", "v", "a">>, <<"j", "a", "v", "a", "x">>, <<"j", "d", "k">>,
               <<"n", "e", "t">>, <<"o", "r", "g">>, <<"c", "o", "m">>, <<"i", "o">>,
               <<"s", "u", "n">>} : StartsWith(name, w \o <<"/">>)

color_java(seed, name, state) ==
    LET type_ ==
            IF Contains(name, <<"_", "[", "j", "]">>) THEN "green"
            ELSE IF Contains(name, <<"_", "[", "i", "]">>) THEN "aqua"
            ELSE IF Contains(name, <<"_", "[", "k", "]">>) THEN "orange"
            ELSE IF JavaPackage(name) THEN "green"
            ELSE IF Contains(name, <<":", ":", ":">>) THEN "green"
            ELSE IF Contains(name, <<":", ":">>) THEN "yellow"
            ELSE "red"
    IN  get_color_by_type(type_, seed, name, state)

GRAY_DASH == "rgb(200, 200, 200)"
GRAY_DASHES == "rgb(160, 160, 160)"

NamedThemes ==
    {"hot", "mem", "io", "wakeup", "chain", "red", "green", "blue", "yellow",
     "purple", "aqua", "orange"}

\* The three draws of get_color and the colour of the hot theme on them.
hot_of_draws(seed, name, state) ==
    LET d1 == random_namehash(seed, name, state)
        d2 == random_namehash(seed, name, d1.state)
        d3 == random_namehash(seed, name, d2.state)
    IN  [state |-> d3.state, color |-> color_hot(d1.value, d2.value, d3.value)]

\* Variant of get_color: the java theme is looked at before the separators.
get_color_java_first(seed, name, theme, state) ==
    IF theme = "java" THEN color_java(seed, name, state)
    ELSE IF name = <<"-", "-">> THEN [state |-> state, color |-> GRAY_DASHES]
    ELSE IF name = <<"-">> THEN [state |-> state, color |-> GRAY_DASH]
    ELSE hot_of_draws(seed, name, state)

\* get_color(name, theme): the colour and the generator state left.
get_color(seed, name, theme, state) ==
    IF name = <<"-", "-">> THEN [state |-> state, color |-> GRAY_DASHES]
    ELSE IF name = <<"-">> THEN [state |-> state, color |-> GRAY_DASH]
    ELSE IF theme = "java" THEN color_java(seed, name, state)
    ELSE IF theme \in NamedThemes
    THEN LET d1 == random_namehash(seed, name, state)
             d2 == random_namehash(seed, name, d1.state)
             d3 == random_namehash(seed, name, d2.state)
             v1 == d1.value
             v2 == d2.value
             v3 == d3.value
         IN  IF theme = "hot" THEN [state |-> d3.state, color |-> color_hot(v1, v2, v3)]
             ELSE IF theme = "mem" THEN [state |-> d3.state, color |-> color_mem(v1, v2, v3)]
             ELSE IF theme = "io"
                  THEN [state |-> d3.state,
                        color |-> Rgb(80 + Scaled(60, v1), 80 + Scaled(60, v1),
                                      190 + Scaled(55, v2))]
             ELSE IF theme = "wakeup" THEN get_color_by_type("aqua", seed, name, d3.state)
             ELSE IF theme = "chain"
                  THEN IF Contains(name, <<"_", "[", "w", "]">>)
                       THEN get_color_by_type("aqua", seed, name, d3.state)
                       ELSE get_color_by_type("blue", seed, name, d3.state)
             ELSE get_color_by_type(theme, seed, name, d3.state)
    ELSE hot_of_draws(seed, name, state)

(***************************************************************************)
(* Exact arithmetic on fractions, for the float computations of the        *)
(* generator: a number is [num, den] with den > 0, in lowest terms.        *)
(***************************************************************************)
RECURSIVE Gcd(_, _)
Gcd(a, b) == IF b = 0 THEN a ELSE Gcd(b, a % b)

Abs(n) == IF n < 0 THEN 0 - n ELSE n

Norm(n, d) ==
    LET g == Gcd(Abs(n), Abs(d))
        s == IF d < 0 THEN 0 - 1 ELSE 1
    IN  Frac((s * n) \div g, (s * d) \div g)

RInt(n) == Frac(n, 1)
RAdd(a, b) == Norm(a.num * b.den + b.num * a.den, a.den * b.den)
RSub(a, b) == Norm(a.num * b.den - b.num * a.den, a.den * b.den)
RMul(a, b) == Norm(a.num * b.num, a.den * b.den)
RDiv(a, b) == Norm(a.num * b.den, a.den * b.num)
RLess(a, b) == a.num * b.den < b.num * a.den
RLeq(a, b) == a.num * b.den <= b.num * a.den
REq(a, b) == a.num * b.den = b.num * a.den
RMin(a, b) == IF RLess(b, a) THEN b ELSE a

\* int(x): truncation towards zero.
Trunc(a) == IF a.num >= 0 THEN a.num \div a.den ELSE 0 - ((0 - a.num) \div a.den)

(***************************************************************************)
(* color.namehash                                                          *)
(***************************************************************************)
\* re.sub(r".*?`", "", name): what follows the last backtick of the name.
strip_module(name) ==
    LET ticks == {k \in 1..Len(name) : name[k] = BACKTICK}
    IN  IF ticks = {} THEN name
        ELSE SubSeq(name, (CHOOSE k \in ticks : \A j \in ticks : j <= k) + 1, Len(name))

\* The loop of namehash, lines 31-38: the break of line 36 is taken when mod
\* has passed 12, before the increment of line 38.
RECURSIVE namehash_loop(_, _, _, _, _)
namehash_loop(cs, vector, weight, max_val, mod) ==
    IF cs = <<>> THEN [vector |-> vector, max_val |-> max_val]
    ELSE LET i == Ord(cs[1]) % mod
             v == RAdd(vector, RMul(Norm(i, mod - 1), weight))
             m == RAdd(max_val, weight)
             w == RMul(weight, Frac(7, 10))
         IN  IF mod > 12 THEN [vector |-> v, max_val |-> m]
             ELSE namehash_loop(Tail(cs), v, w, m, mod + 1)

\* namehash(name)
namehash(name) ==
    LET r == namehash_loop(strip_module(name), RInt(0), RInt(1), RInt(1), 10)
    IN  RSub(RInt(1), RDiv(r.vector, r.max_val))

(***************************************************************************)
(* FlameGraphGenerator._assign_colors and _get_cpu_color                   *)
(***************************************************************************)
NODE_COLOR == "rgb(100, 120, 160)"

\* _get_cpu_color(cpu_percent)
get_cpu_color(cpu_percent) ==
    LET ratio == RMin(RDiv(cpu_percent, RInt(100)), RInt(1))
        One == RInt(1)
    IN  IF RLess(Frac(1, 2), ratio)
        THEN LET local_ratio == RDiv(RSub(ratio, Frac(1, 2)), Frac(1, 2))
             IN  Rgb(255, Trunc(RMul(RInt(165), RSub(One, local_ratio))), 0)
        ELSE IF RLess(Frac(1, 5), ratio)
        THEN LET local_ratio == RDiv(RSub(ratio, Frac(1, 5)), Frac(3, 10))
             IN  Rgb(Trunc(RMul(RInt(255), RAdd(Frac(1, 2), RMul(Frac(1, 2), local_ratio)))),
                     Trunc(RMul(RInt(255), RSub(One, RMul(Frac(2, 5), local_ratio)))),
                     0)
        ELSE LET local_ratio == RDiv(ratio, Frac(1, 5))
             IN  Rgb(Trunc(RMul(RInt(255), local_ratio)),
                     255,
                     Trunc(RMul(RInt(100), RSub(One, local_ratio))))

RECURSIVE assign_colors(_, _, _, _)
RECURSIVE assign_colors_children(_, _, _, _, _, _)

\* Variant of _assign_colors: every node that is not named "all" is coloured
\* by get_color, at depth 1 too.
assign_colors_every_depth_hashed(node, theme, seed, state) ==
    LET paint(n) ==
            [n EXCEPT !.color = IF n.name = ALL THEN n.color
                                ELSE get_color(seed, n.name, theme, state).color]
        below(n) ==
            [n EXCEPT !.children = [k \in DOMAIN n.children |-> paint(n.children[k])]]
    IN  [node  |-> [node EXCEPT !.children =
                        [k \in DOMAIN node.children |-> below(paint(node.children[k]))]],
         state |-> state]

\* for child in node.children: self._assign_colors(child)
assign_colors_children(children, k, acc, theme, seed, state) ==
    IF k > Len(children) THEN [children |-> acc, state |-> state]
    ELSE LET c == assign_colors(children[k], theme, seed, state)
         IN  assign_colors_children(children, k + 1, Append(acc, c.node), theme, seed, c.state)

\* _assign_colors(node): the coloured subtree and the generator state left.
assign_colors(node, theme, seed, state) ==
    LET own ==
            IF node.name = ALL THEN [color |-> node.color, state |-> state]
            ELSE IF node.depth = 1 THEN [color |-> NODE_COLOR, state |-> state]
            ELSE IF node.depth = 2 /\ theme = "cpu"
                 THEN [color |-> get_cpu_color(node.cpu_percent), state |-> state]
            ELSE get_color(seed, node.name, theme, state)
        kids == assign_colors_children(node.children, 1, <<>>, theme, seed, own.state)
    IN  [node  |-> [node EXCEPT !.color = own.color, !.children = kids.children],
         state |-> kids.state]

(***************************************************************************)
(* FlameGraphGenerator._calculate_layout                                   *)
(***************************************************************************)
\* ypad1 = fontsize * 3
ypad1 == DefaultFontsize * 3

\* Variant of calc_percent: every level is measured against the value
\* handed in at the root, the grand total.
RECURSIVE calc_percent_of_total(_, _)
calc_percent_of_total(node, parent_value) ==
    [node EXCEPT
        !.percentage =
            IF node.depth = 1 THEN RInt(100)
            ELSE IF parent_value > 0
                 THEN RMul(RDiv(RInt(node.value), RInt(parent_value)), RInt(100))
                 ELSE RInt(0),
        !.children = [k \in 1..Len(node.children) |->
                         calc_percent_of_total(node.children[k], parent_value)]]

\* calc_percent(node, parent_value)
RECURSIVE calc_percent(_, _)
calc_percent(node, parent_value) ==
    [node EXCEPT
        !.percentage =
            IF node.depth = 1 THEN RInt(100)
            ELSE IF parent_value > 0
                 THEN RMul(RDiv(RInt(node.value), RInt(parent_value)), RInt(100))
                 ELSE RInt(0),
        !.children = [k \in 1..Len(node.children) |->
                         calc_percent(node.children[k], node.value)]]

\* Variant of the first loop: without a positive total the nodes share the
\* width equally.
RECURSIVE layout_nodes_equal_shares(_, _, _, _, _, _)
layout_nodes_equal_shares(nodes, k, acc, current_x, total_time, total_width) ==
    IF k > Len(nodes) THEN acc
    ELSE LET w == IF total_time > 0
                  THEN RMul(RDiv(RInt(nodes[k].value), RInt(total_time)), RInt(total_width))
                  ELSE Norm(total_width, Len(nodes))
             node == [nodes[k] EXCEPT !.width = w,
                                      !.x = current_x,
                                      !.y = ypad1 + (DefaultHeight + FramePad),
                                      !.end_time = RAdd(current_x, w)]
         IN  layout_nodes_equal_shares(nodes, k + 1, Append(acc, node), RAdd(current_x, w),
                                       total_time, total_width)

\* Variant of the first loop: current_x is not advanced.
RECURSIVE layout_nodes_stacked(_, _, _, _, _, _)
layout_nodes_stacked(nodes, k, acc, current_x, total_time, total_width) ==
    IF k > Len(nodes) THEN acc
    ELSE LET w == IF total_time > 0
                  THEN RMul(RDiv(RInt(nodes[k].value), RInt(total_time)), RInt(total_width))
                  ELSE RInt(0)
             node == [nodes[k] EXCEPT !.width = w,
                                      !.x = current_x,
                                      !.y = ypad1 + (DefaultHeight + FramePad),
                                      !.end_time = RAdd(current_x, w)]
         IN  layout_nodes_stacked(nodes, k + 1, Append(acc, node), current_x,
                                  total_time, total_width)

\* The first loop, lines 280-292: the nodes side by side from current_x on.
RECURSIVE layout_nodes(_, _, _, _, _, _)
layout_nodes(nodes, k, acc, current_x, total_time, total_width) ==
    IF k > Len(nodes) THEN acc
    ELSE LET w == IF total_time > 0
                  THEN RMul(RDiv(RInt(nodes[k].value), RInt(total_time)), RInt(total_width))
                  ELSE RInt(0)
             node == [nodes[k] EXCEPT !.width = w,
                                      !.x = current_x,
                                      !.y = ypad1 + (DefaultHeight + FramePad),
                                      !.end_time = RAdd(current_x, w)]
         IN  layout_nodes(nodes, k + 1, Append(acc, node), RAdd(current_x, w),
                          total_time, total_width)

\* The inner loop, lines 298-307: the threads of a node from thread_x on.
RECURSIVE layout_threads(_, _, _, _, _)
layout_threads(node, ths, k, acc, thread_x) ==
    IF k > Len(ths) THEN acc
    ELSE LET w == IF node.value > 0
                  THEN RMul(RDiv(RInt(ths[k].value), RInt(node.value)), node.width)
                  ELSE RInt(0)
             thread == [ths[k] EXCEPT !.x = thread_x, !.width = w, !.y = ypad1]
         IN  layout_threads(node, ths, k + 1, Append(acc, thread), RAdd(thread_x, w))

\* _calculate_layout(root, total_time)
calculate_layout(tree, total_time, w, pad) ==
    LET total_width == w - 2 * pad
        percented == calc_percent(tree, total_time)
        nodes == layout_nodes(percented.children, 1, <<>>, RInt(pad), total_time, total_width)
    IN  [percented EXCEPT
            !.children = [k \in 1..Len(nodes) |->
                [nodes[k] EXCEPT
                    !.children = layout_threads(nodes[k], nodes[k].children, 1, <<>>,
                                                nodes[k].x)]]]

(***************************************************************************)
(* FlameGraphGenerator._collect_frames                                     *)
(***************************************************************************)
\* collect(node): the node, unless it is named "all", then its subtrees.
RECURSIVE collect(_)
collect(node) ==
    (IF node.name # ALL THEN <<node>> ELSE <<>>)
        \o Flatten([k \in 1..Len(node.children) |-> collect(node.children[k])])

\* Variant of _collect_frames: the root is collected as well.
collect_frames_with_root(tree) == <<tree>> \o collect(tree)

collect_frames(tree) == collect(tree)

(***************************************************************************)
(* FlameGraphGenerator._filter_by_minwidth                                 *)
(***************************************************************************)
RECURSIVE Pow10(_)
Pow10(n) == IF n = 0 THEN 1 ELSE 10 * Pow10(n - 1)

\* float(<str>) on decimal notation: surrounding whitespace stripped, an
\* optional sign, digits with at most one point and at least one digit;
\* anything else is a ValueError (exponents, inf and nan are not modelled).
FloatOfText(cs) ==
    LET s      == Strip(cs)
        neg    == s # <<>> /\ s[1] = "-"
        body   == IF s # <<>> /\ s[1] \in {"-", "+"} THEN Tail(s) ELSE s
        points == {i \in 1..Len(body) : body[i] = "."}
        digits == SelectSeq(body, LAMBDA c : c # ".")
        places == IF points = {} THEN 0
                  ELSE Len(body) - (CHOOSE i \in points : TRUE)
    IN  IF \/ digits = <<>>
           \/ Cardinality(points) > 1
           \/ \E i \in 1..Len(digits) : digits[i] \notin Digits
        THEN [exc |-> "ValueError", val |-> RInt(0)]
        ELSE [exc |-> "",
              val |-> Norm(IF neg THEN 0 - DigitsValue(digits, 0) ELSE DigitsValue(digits, 0),
                           Pow10(places))]

\* str.rstrip("%")
RECURSIVE RStripPercent(_)
RStripPercent(cs) ==
    IF cs # <<>> /\ cs[Len(cs)] = "%" THEN RStripPercent(SubSeq(cs, 1, Len(cs) - 1)) ELSE cs

\* Lines 380-384: the threshold in pixels.
min_width_of(mw, w, pad) ==
    IF mw # <<>> /\ mw[Len(mw)] = "%"
    THEN LET min_pct == FloatOfText(RStripPercent(mw))
         IN  [exc |-> min_pct.exc,
              val |-> RDiv(RMul(RInt(w - 2 * pad), min_pct.val), RInt(100))]
    ELSE FloatOfText(mw)

\* Variant of keeps: a frame exactly as wide as the threshold is dropped.
keeps_strictly_wider(frame, min_width) == RLess(min_width, frame.width)

\* if frame.width >= min_width
keeps(frame, min_width) == RLeq(min_width, frame.width)

\* _filter_by_minwidth(frames, total_time)
filter_by_minwidth(fs, mw, w, pad) ==
    LET min_width == min_width_of(mw, w, pad)
    IN  [exc |-> min_width.exc,
         frames |-> IF min_width.exc # "" THEN <<>>
                    ELSE SelectSeq(fs, LAMBDA frame : keeps(frame, min_width.val))]

(***************************************************************************)
(* HotThreadsParser.  The text is the sequence of its lines (text.split on *)
(* the newline).  A line is a record: kind names the pattern of __init__   *)
(* that the line matches ("node", "hot", "cpu", "snapshots"), "blank" for  *)
(* a line that strip() empties and "frame" for any other line; the groups  *)
(* of the match are fields of the record, and text is the stripped line.   *)
(***************************************************************************)
\* node_header_pattern.match(line)
node_header_match(line) == line.kind = "node"

\* hot_threads_header_pattern.search(line)
hot_threads_header_match(line) == line.kind = "hot"

\* cpu_usage_pattern.match(line.strip())
cpu_usage_match(line) == line.kind = "cpu"

\* snapshots_pattern.search(line.strip())
snapshots_match(line) == line.kind = "snapshots"

\* current_node = None
NoNode == [node_id |-> <<>>, node_name |-> <<>>]

\* A stack frame line without its Java module prefix, lines 211-216: with an
\* "@" in it and a "/" in what follows the first "@" up to the next one, the
\* frame is what follows the last "/" of that part.
strip_java_module(frame) ==
    LET ats == {k \in 1..Len(frame) : frame[k] = "@"}
    IN  IF ats = {} THEN frame
        ELSE LET first == CHOOSE k \in ats : \A j \in ats : k <= j
                 later == {k \in ats : k > first}
                 stop  == IF later = {} THEN Len(frame) + 1
                          ELSE CHOOSE k \in later : \A j \in later : k <= j
                 part  == SubSeq(frame, first + 1, stop - 1)
                 slashes == {k \in 1..Len(part) : part[k] = "/"}
             IN  IF slashes = {} THEN frame
                 ELSE SubSeq(part, (CHOOSE k \in slashes : \A j \in slashes : j <= k) + 1,
                             Len(part))

Reversed(s) == [k \in 1..Len(s) |-> s[Len(s) + 1 - k]]

\* _parse_thread_info(lines, node_info, timestamp, interval): the ThreadInfo,
\* as a list of one record, or the empty list for None.  cpu_time_ms is
\* counted in units of 10^-6 ms.
parse_thread_info(lines, node_info) ==
    IF lines = <<>> THEN <<>>
    ELSE IF ~cpu_usage_match(lines[1]) THEN <<>>
    ELSE LET cpu_time_ms ==
                 IF lines[1].unit = "micros" THEN lines[1].cpu_time * 1000
                 ELSE lines[1].cpu_time * 1000000
             samples_count ==
                 IF Len(lines) > 1 /\ snapshots_match(lines[2]) THEN lines[2].count ELSE 0
             rest == SubSeq(lines, 3, Len(lines))
             kept == SelectSeq(rest, LAMBDA l : l.text # <<>> /\ l.text[1] # "[")
             stack_frames == [k \in 1..Len(kept) |-> strip_java_module(kept[k].text)]
         IN  IF stack_frames = <<>> THEN <<>>
             ELSE <<[node_id |-> node_info.node_id, node_name |-> node_info.node_name,
                     cpu_time_ms |-> cpu_time_ms, thread_name |-> lines[1].thread_name,
                     samples_count |-> samples_count,
                     stack_frames |-> Reversed(stack_frames)]>>

\* The thread collected so far is parsed and appended, lines 107-115.
flush_thread(st) ==
    [st EXCEPT !.threads = @ \o parse_thread_info(st.current_thread_lines, st.current_node),
               !.current_thread_lines = <<>>]

\* One iteration of the loop of parse_text, lines 87-131; st is the record
\* of the locals threads, current_node, current_interval and
\* current_thread_lines.
parse_line(st, line) ==
    LET st1 == IF node_header_match(line)
               THEN [st EXCEPT !.current_node =
                         [node_id |-> line.node_id, node_name |-> line.node_name]]
               ELSE st
        st2 == IF hot_threads_header_match(line)
               THEN [st1 EXCEPT !.current_interval = line.interval]
               ELSE st1
    IN  IF cpu_usage_match(line)
        THEN LET st3 == IF st2.current_thread_lines # <<>> /\ st2.current_node # NoNode
                        THEN flush_thread(st2) ELSE st2
             IN  [st3 EXCEPT !.current_thread_lines = <<line>>]
        ELSE IF st2.current_thread_lines # <<>> /\ line.text # <<>>
        THEN [st2 EXCEPT !.current_thread_lines = Append(@, line)]
        ELSE IF st2.current_thread_lines # <<>> /\ line.text = <<>>
        THEN IF st2.current_node # NoNode THEN flush_thread(st2) ELSE st2
        ELSE st2

RECURSIVE parse_lines(_, _, _)
parse_lines(lines, k, st) ==
    IF k > Len(lines) THEN st ELSE parse_lines(lines, k + 1, parse_line(st, lines[k]))

\* HotThreadsParser.parse_text(text): the fields of the ParsedData.
hot_threads_parse_text(lines) ==
    LET st == parse_lines(lines, 1, [threads |-> <<>>, current_node |-> NoNode,
                                     current_interval |-> 0, current_thread_lines |-> <<>>])
        last == IF st.current_thread_lines # <<>> /\ st.current_node # NoNode
                THEN flush_thread(st) ELSE st
    IN  [threads        |-> last.threads,
         total_cpu_time |-> SumSeq([i \in 1..Len(last.threads) |-> last.threads[i].cpu_time_ms]),
         node_count     |-> Cardinality({last.threads[i].node_id : i \in 1..Len(last.threads)})]

(***************************************************************************)
(* FlameGraphGenerator.generate as a whole, and its callers: main (single  *)
(* graph and per node) and MixedParser.generate_flamegraphs.               *)
(***************************************************************************)
\* def generate(self, data): the parameters a call may give.
GenerateParams == {"data"}

\* The keyword arguments at the call sites: generate(data, is_tasks=is_tasks),
\* generate(node_data, is_tasks=False), generate(ht_data, is_tasks=False) and
\* generate(t_data, is_tasks=True).
SingleGraphKeywords == {"is_tasks"}
PerNodeKeywords == {"is_tasks"}
MixedKeywords == {"is_tasks"}

\* Binding the arguments of a call: TypeError when a keyword names no
\* parameter of the function; the body is not entered then.
bind_arguments(params, keywords) == IF keywords \subseteq params THEN "" ELSE "TypeError"

\* generate(data), lines 87-92, on a generator with the given configuration.
\* Each statement of the body hands its value to the statements after it:
\* the values generate has after line 92, ...
generate_result(mrg, state, laid, fs, kept) ==
    [exc |-> kept.exc, merged |-> mrg, root |-> laid, frames |-> fs,
     filtered |-> kept.frames, state |-> state]

\* ... line 92, frames = self._filter_by_minwidth(frames, ...), ...
generate_collected(mrg, state, laid, fs, w, pad, mw) ==
    generate_result(mrg, state, laid, fs, filter_by_minwidth(fs, mw, w, pad))

\* ... line 91, frames = self._collect_frames(root), ...
generate_laid(mrg, state, laid, w, pad, mw) ==
    generate_collected(mrg, state, laid, collect_frames(laid), w, pad, mw)

\* ... line 90, self._calculate_layout(root, data.total_cpu_time), ...
generate_coloured(mrg, coloured, total, w, pad, mw) ==
    generate_laid(mrg, coloured.state, calculate_layout(coloured.node, total, w, pad),
                  w, pad, mw)

\* ... lines 88-89, root = self._build_tree(merged, ...) and
\* self._assign_colors(root), ...
generate_merged(mrg, total, theme, seed, state, w, pad, mw) ==
    generate_coloured(mrg, assign_colors(build_tree(mrg, total), theme, seed, state),
                      total, w, pad, mw)

\* ... and line 87, merged = self._merge_threads(data.threads).
generate(ths, total, sort, theme, seed, state, w, pad, mw) ==
    generate_merged(merge_threads(ths, sort), total, theme, seed, state, w, pad, mw)

\* A call of generate from a call site: the binding of its arguments, then
\* the body.
call_generate(keywords, ths, total, sort, theme, seed, state, w, pad, mw) ==
    LET exc == bind_arguments(GenerateParams, keywords)
    IN  IF exc # ""
        THEN [exc |-> exc, merged |-> <<>>, root |-> FrameNode(ALL, 0, 0), frames |-> <<>>,
              filtered |-> <<>>, state |-> state]
        ELSE generate(ths, total, sort, theme, seed, state, w, pad, mw)

\* main, lines 241-244: the threads of each node, nodes in order of first
\* appearance.
node_keys(ths) ==
    LET first(k) == \A j \in 1..(k - 1) : ths[j].node_id # ths[k].node_id
    IN  SelectSeq([k \in DOMAIN ths |-> IF first(k) THEN ths[k].node_id ELSE ""],
                  LAMBDA id : id # "")

threads_of_node(ths, id) == SelectSeq(ths, LAMBDA t : t.node_id = id)

\* main, lines 241-297: one call of generate per node, each on the threads of
\* the node with their sum as the total.
per_node_graphs(threads_, sort, theme, seed, state, w, pad, mw) ==
    LET keys == node_keys(threads_)
    IN  [k \in DOMAIN keys |->
            LET ths == threads_of_node(threads_, keys[k])
            IN  call_generate(PerNodeKeywords, ths,
                              SumSeq([i \in 1..Len(ths) |-> ths[i].cpu_time_ms]),
                              sort, theme, seed, state, w, pad, mw)]

(***************************************************************************)
(* Inputs.                                                                 *)
(***************************************************************************)
N1 == <<"n", "1">>
N2 == <<"n", "2">>
ActA  == <<"a">>
ActAS == <<"a", "[", "s", "]">>
DescD == <<"d">>

TaskObjects(nodes, ids, parents, actions, descriptions, costs) ==
    [_node_id : nodes, _task_id : ids, parent_task_id : parents,
     action : actions, description : descriptions,
     running_time_in_nanos : costs]

\* Task graphs: any task id and parent id, the empty id, repeated ids, cycles
\* and dangling parents included.
GraphIds == {"", "t1", "t2", "t3"}

GraphTasks ==
    TaskObjects({N1, N2}, GraphIds, GraphIds, {JStr(ActA)}, {JStr(DescD)},
                {JInt(1), JInt(2)})

\* Nothing parsed, nothing drawn, no colour asked for yet.
NothingParsed ==
    /\ all_tasks = <<>>
    /\ aggregated = <<>>
    /\ threads = <<>>
    /\ total_cpu_time = 0
    /\ node_count = 0
    /\ error = ""

NothingDrawn ==
    /\ merged = <<>>
    /\ root = FrameNode(ALL, 0, 0)
    /\ frames = <<>>
    /\ filtered = <<>>

NothingColoured(seed, state) ==
    /\ hash_seed = seed
    /\ rng = state
    /\ calls = <<>>

\* parse_text entered at the loop over the extracted task objects, followed
\* by a generator built with the defaults of __init__.
Start(batch) ==
    /\ text = <<>>
    /\ data_list = <<>>
    /\ raw = batch
    /\ pc = "parse"
    /\ NothingParsed
    /\ init_generator({}, NoArgs)
    /\ NothingDrawn
    /\ NothingColoured(0, 0)

Init == \E batch \in Batches(GraphTasks) : Start(batch)

\* Well-formed task graphs: record i carries the task id TaskIdOf[i], so the
\* ids of a batch are unique and non-empty; its parent id is absent or any of
\* the ids (a dangling one in a shorter batch), its cost is i nanoseconds, and
\* it is of one of three kinds: action "a" or "a[s]" with a description, or
\* action "a" without one.
TaskIdOf == <<"t1", "t2", "t3", "t4", "t5">>

TaskObject(node, id, parent, action, description, cost) ==
    [_node_id |-> node, _task_id |-> id, parent_task_id |-> parent,
     action |-> action, description |-> description,
     running_time_in_nanos |-> cost]

TaskKinds ==
    {[action |-> JStr(ActA),  description |-> JStr(DescD)],
     [action |-> JStr(ActAS), description |-> JStr(DescD)],
     [action |-> JStr(ActA),  description |-> JStr(<<>>)]}

ParentChoices == {""} \cup {TaskIdOf[j] : j \in 1..MaxTasks}

InitUniqueIds ==
    \E n \in 0..MaxTasks :
      \E parents \in [1..n -> ParentChoices], kinds \in [1..n -> TaskKinds] :
        Start([i \in 1..n |->
                 TaskObject(N1, TaskIdOf[i], parents[i], kinds[i].action,
                            kinds[i].description, JInt(i))])

\* Field variants: parentless records with unique ids whose action and
\* running_time_in_nanos take every JSON shape _parse_task distinguishes.
ActionChoices == {JAbsent, JStr(<<>>), JStr(ActA)}

CostChoices ==
    {JAbsent, JNull, JStr(<<"x">>), JStr(<<"7">>), JList, JInt(2), JInf}

InitFields ==
    \E n \in 0..MaxTasks :
      \E actions \in [1..n -> ActionChoices], costs \in [1..n -> CostChoices] :
        Start([i \in 1..n |->
                 TaskObject(N1, TaskIdOf[i], "", actions[i], JAbsent, costs[i])])

\* Input texts: up to MaxFragments fragments written one after the other.
\* The fragments are documents in the nested and in the direct format,
\* documents whose nodes or tasks have an unusable shape, and text that is no
\* document.
Str(cs) == <<Q>> \o cs \o <<Q>>

Member(key, value) == Str(key) \o <<":">> \o value

RECURSIVE Members(_)
Members(ms) ==
    IF ms = <<>> THEN <<>>
    ELSE IF Len(ms) = 1 THEN ms[1]
    ELSE ms[1] \o <<",">> \o Members(Tail(ms))

Object(ms) == <<"{">> \o Members(ms) \o <<"}">>

T1 == <<"t", "1">>
T2 == <<"t", "2">>

TaskRoot ==
    Object(<<Member(KeyAction, Str(ActA)), Member(KeyRunningTimeInNanos, <<"1">>)>>)

TaskChild ==
    Object(<<Member(KeyAction, Str(ActA)), Member(KeyParentTaskId, Str(T1)),
             Member(KeyRunningTimeInNanos, <<"2">>)>>)

DirectDoc(tasks) == Object(<<Member(N1, Object(<<Member(KeyTasks, tasks)>>))>>)

NestedDoc(tasks) == Object(<<Member(KeyNodes, Object(<<Member(N1, Object(<<Member(KeyTasks, tasks)>>))>>))>>)

Fragments ==
    { NestedDoc(Object(<<Member(T1, TaskRoot)>>)),
      DirectDoc(Object(<<Member(T2, TaskChild)>>)),
      DirectDoc(Object(<<Member(T1, <<"n", "u", "l", "l">>)>>)),
      DirectDoc(<<"[", "]">>),
      Object(<<Member(N1, <<"1">>)>>),
      <<"{", "}">>,
      <<"[", "]">>,
      Str(KeyNodes),
      <<"}">>,
      <<Q>>,
      <<"x">>,
      <<" ">> }

RECURSIVE Texts(_)
Texts(n) ==
    IF n = 0 THEN {<<>>}
    ELSE Texts(n - 1) \cup {t \o f : t \in Texts(n - 1), f \in Fragments}

InitText ==
    \E t \in Texts(MaxFragments) :
        /\ text = t
        /\ data_list = <<>>
        /\ raw = <<>>
        /\ pc = "load"
        /\ NothingParsed
        /\ init_generator({}, NoArgs)
        /\ NothingDrawn
        /\ NothingColoured(0, 0)

\* ParsedData as a parse_text returns it: up to MaxTasks threads on two
\* nodes, total_cpu_time their sum.  A cpu time is zero, positive or, from a
\* task whose running_time_in_nanos is negative, negative.  The generator is
\* built with one of a few argument lists.
ActB == <<"b">>

ThreadInfos ==
    [node_id : {N1, N2}, node_name : {<<>>}, cpu_time_ms : {0 - 1, 0, 2},
     thread_name : {ActA, ActB}, samples_count : {1}, stack_frames : {<<>>}]

GeneratorArgs ==
    {[given |-> {}, args |-> NoArgs],
     [given |-> {"sort_by_cpu", "color_theme"},
      args |-> [NoArgs EXCEPT !.sort_by_cpu = TRUE, !.color_theme = "java"]],
     [given |-> {"minwidth", "color_theme"},
      args |-> [NoArgs EXCEPT !.minwidth = <<"5", "0", "%">>, !.color_theme = "cpu"]],
     [given |-> {"minwidth", "sort_by_cpu", "width", "xpad"},
      args |-> [NoArgs EXCEPT !.minwidth = <<"2", "5">>, !.sort_by_cpu = TRUE,
                              !.width = 120, !.xpad = 10]],
     [given |-> {"minwidth"}, args |-> [NoArgs EXCEPT !.minwidth = <<"%">>]]}

InitLayout ==
    \E ths \in Batches(ThreadInfos), g \in GeneratorArgs :
        /\ text = <<>>
        /\ data_list = <<>>
        /\ raw = <<>>
        /\ all_tasks = <<>>
        /\ aggregated = <<>>
        /\ threads = ths
        /\ total_cpu_time = SumSeq([i \in 1..Len(ths) |-> ths[i].cpu_time_ms])
        /\ node_count = Cardinality({ths[i].node_id : i \in 1..Len(ths)})
        /\ error = ""
        /\ pc = "parsed"
        /\ init_generator(g.given, g.args)
        /\ NothingDrawn
        /\ NothingColoured(0, 0)

\* Thread records whose node id or thread name is one of the labels the
\* generator treats specially: "all", the name of the root, and the separator.
LabelledThreadInfos ==
    [node_id : {N1, ALL}, node_name : {<<>>}, cpu_time_ms : {1, 2},
     thread_name : {ActA, ALL, <<"-">>}, samples_count : {1}, stack_frames : {<<>>}]

\* The colour themes of the command line: hash colouring by default or with
\* the java theme, and colouring by cpu share.
ThemeArgs ==
    {[given |-> {}, args |-> NoArgs],
     [given |-> {"color_theme"}, args |-> [NoArgs EXCEPT !.color_theme = "java"]],
     [given |-> {"color_theme"}, args |-> [NoArgs EXCEPT !.color_theme = "cpu"]]}

InitLabels ==
    \E ths \in Batches(LabelledThreadInfos), g \in ThemeArgs, seed \in 0..1 :
        /\ text = <<>>
        /\ data_list = <<>>
        /\ raw = <<>>
        /\ all_tasks = <<>>
        /\ aggregated = <<>>
        /\ threads = ths
        /\ total_cpu_time = SumSeq([i \in 1..Len(ths) |-> ths[i].cpu_time_ms])
        /\ node_count = Cardinality({ths[i].node_id : i \in 1..Len(ths)})
        /\ error = ""
        /\ pc = "parsed"
        /\ init_generator(g.given, g.args)
        /\ NothingDrawn
        /\ NothingColoured(seed, 0)

\* Labels given to namehash: all texts of up to MaxLabel characters over two
\* letters and the backtick, and the two method names of the tests.
HashAlphabet == {"a", "b", BACKTICK}

ThreadRun ==
    <<"j", "a", "v", "a", ".", "l", "a", "n", "g", ".", "T", "h", "r", "e", "a", "d", ".",
      "r", "u", "n">>

ThreadSleep ==
    <<"j", "a", "v", "a", ".", "l", "a", "n", "g", ".", "T", "h", "r", "e", "a", "d", ".",
      "s", "l", "e", "e", "p">>

HashNames ==
    UNION {[1..n -> HashAlphabet] : n \in 0..MaxLabel} \cup {ThreadRun, ThreadSleep}

InitHash ==
    \E name \in HashNames :
        /\ text = name
        /\ data_list = <<>>
        /\ raw = <<>>
        /\ NothingParsed
        /\ pc = "hash"
        /\ init_generator({}, NoArgs)
        /\ NothingDrawn
        /\ NothingColoured(0, 0)

\* The callers of generate, each with the ParsedData its parser returned and
\* a generator built with the defaults.
Callers == {"main", "main per node", "generate_flamegraphs"}

InitMain ==
    \E ths \in Batches(ThreadInfos), caller \in Callers :
        /\ text = <<>>
        /\ data_list = <<>>
        /\ raw = <<>>
        /\ all_tasks = <<>>
        /\ aggregated = <<>>
        /\ threads = ths
        /\ total_cpu_time = SumSeq([i \in 1..Len(ths) |-> ths[i].cpu_time_ms])
        /\ node_count = Cardinality({ths[i].node_id : i \in 1..Len(ths)})
        /\ error = ""
        /\ pc = caller
        /\ init_generator({}, NoArgs)
        /\ NothingDrawn
        /\ NothingColoured(0, 0)

\* Three threads of one node whose cpu times are whole percents of the
\* node's total, under the cpu theme.
InitCpuTheme ==
    \E p1 \in 0..100 : \E p2 \in 0..(100 - p1) :
        LET th(name, cpu) ==
                [node_id |-> N1, node_name |-> <<>>, cpu_time_ms |-> cpu,
                 thread_name |-> name, samples_count |-> 1, stack_frames |-> <<>>]
        IN  /\ text = <<>>
            /\ data_list = <<>>
            /\ raw = <<>>
            /\ all_tasks = <<>>
            /\ aggregated = <<>>
            /\ threads = <<th(ActA, p1), th(ActB, p2), th(DescD, 100 - p1 - p2)>>
            /\ total_cpu_time = 100
            /\ node_count = 1
            /\ error = ""
            /\ pc = "parsed"
            /\ init_generator({"color_theme"}, [NoArgs EXCEPT !.color_theme = "cpu"])
            /\ NothingDrawn
            /\ NothingColoured(0, 0)

\* Lines of a hot threads report: the headers of two nodes, the header of a
\* report, the cpu usage lines of two threads (one in ms, one in micros), a
\* snapshots line, a plain stack frame, one with a module prefix, and a
\* blank line.
HotLine(kind, chars) ==
    [kind |-> kind, text |-> chars, node_id |-> <<>>, node_name |-> <<>>, interval |-> 0,
     cpu_time |-> 0, unit |-> "", thread_name |-> <<>>, count |-> 0]

NodeHeader(id) ==
    [HotLine("node", <<":", ":", ":", " ", "{">> \o id \o <<"}">>) EXCEPT
         !.node_id = IF id = <<"1">> THEN N1 ELSE N2, !.node_name = id]

CpuUsage(name, cpu, unit) ==
    [HotLine("cpu", <<"%">> \o name) EXCEPT !.cpu_time = cpu, !.unit = unit,
                                              !.thread_name = name]

BlankLine == HotLine("blank", <<>>)

HotLines ==
    {NodeHeader(<<"1">>), NodeHeader(<<"2">>),
     [HotLine("hot", <<"H">>) EXCEPT !.interval = 500],
     CpuUsage(ActA, 2, "ms"), CpuUsage(ActB, 3, "micros"),
     [HotLine("snapshots", <<"s">>) EXCEPT !.count = 10],
     HotLine("frame", <<"f">>),
     HotLine("frame", <<"m", "@", "1", "/", "g">>),
     BlankLine}

InitHotThreads ==
    \E lines \in UNION {[1..n -> HotLines] : n \in 0..MaxLines} :
        /\ text = lines
        /\ data_list = <<>>
        /\ raw = <<>>
        /\ NothingParsed
        /\ pc = "hot threads"
        /\ init_generator({}, NoArgs)
        /\ NothingDrawn
        /\ NothingColoured(0, 0)

\* Task graphs with unique ids whose records name the node "n1" or a node
\* called "all", and whose first record may have the empty string as its
\* task id (the key "" of the tasks object); costs are positive.
InitSpecialNames ==
    \E n \in 0..MaxTasks :
      \E nodes \in [1..n -> {N1, ALL}], parents \in [1..n -> ParentChoices],
         actions \in [1..n -> {ActA, ActB}], first_id \in {"", TaskIdOf[1]} :
        Start([i \in 1..n |->
                 TaskObject(nodes[i], IF i = 1 THEN first_id ELSE TaskIdOf[i], parents[i],
                            JStr(actions[i]), JStr(DescD), JInt(i))])

\* Labels and themes asked of get_color; the salt and the generator state
\* of the process are arbitrary.
Labels == {<<"-">>, <<"-", "-">>, ActA, <<"b", "_", "[", "w", "]">>}

Themes == {"hot", "java", "chain", "none"}

InitColor ==
    \E seed \in 0..1, state \in 0..(RngModulus - 1) :
        /\ text = <<>>
        /\ data_list = <<>>
        /\ raw = <<>>
        /\ NothingParsed
        /\ pc = "colour"
        /\ init_generator({}, NoArgs)
        /\ NothingDrawn
        /\ NothingColoured(seed, state)

(***************************************************************************)
(* Actions.                                                                *)
(***************************************************************************)
\* parse_text, lines 55-66: the documents of the text; ValueError when there
\* is none.
LoadDocuments ==
    /\ pc = "load"
    /\ data_list' = load_documents(text)
    /\ IF data_list' = <<>>
       THEN pc' = "raised" /\ error' = "ValueError"
       ELSE pc' = "extract" /\ UNCHANGED error
    /\ UNCHANGED <<text, parseVars, configVars, drawVars, colorVars>>

\* parse_text, lines 68-75: _extract_tasks and _parse_task on every document.
ExtractAndParse ==
    /\ pc = "extract"
    /\ LET r == extract_and_parse(data_list, 1, <<>>, <<>>)
       IN  /\ raw' = r.extracted
           /\ IF r.exc # ""
              THEN /\ pc' = "raised"
                   /\ error' = r.exc
                   /\ UNCHANGED all_tasks
              ELSE /\ pc' = "aggregate"
                   /\ all_tasks' = r.tasks
                   /\ UNCHANGED error
    /\ UNCHANGED <<aggregated, threads, total_cpu_time, node_count>>
    /\ UNCHANGED <<textVars, configVars, drawVars, colorVars>>

\* parse_text, lines 68-75: _parse_task on every extracted task.
ParseTasks ==
    /\ pc = "parse"
    /\ LET r == parse_all(raw, 1, <<>>)
       IN  IF r.exc # ""
           THEN /\ pc' = "raised"
                /\ error' = r.exc
                /\ UNCHANGED all_tasks
           ELSE /\ pc' = "aggregate"
                /\ all_tasks' = r.tasks
                /\ UNCHANGED error
    /\ UNCHANGED <<raw, aggregated, threads, total_cpu_time, node_count>>
    /\ UNCHANGED <<textVars, configVars, drawVars, colorVars>>

\* parse_text, line 78: _aggregate_by_hierarchy(all_tasks).
AggregateByHierarchy ==
    /\ pc = "aggregate"
    /\ \E root_order \in Orders(root_task_ids(all_tasks)) :
         LET r == aggregate_by_hierarchy(all_tasks, root_order)
         IN  IF r.overflow
             THEN /\ pc' = "raised"
                  /\ error' = "RecursionError"
                  /\ UNCHANGED aggregated
             ELSE /\ pc' = "convert"
                  /\ aggregated' = r.result
                  /\ UNCHANGED error
    /\ UNCHANGED <<raw, all_tasks, threads, total_cpu_time, node_count>>
    /\ UNCHANGED <<textVars, configVars, drawVars, colorVars>>

\* parse_text, lines 80-95: the ParsedData that is returned.
ReturnParsedData ==
    /\ pc = "convert"
    /\ threads' = to_thread_info_list(aggregated)
    /\ total_cpu_time' =
         nanos_to_ms(SumSeq([i \in 1..Len(all_tasks) |-> all_tasks[i].running_time_nanos]))
    /\ node_count' = Cardinality({all_tasks[i].node_id : i \in 1..Len(all_tasks)})
    /\ pc' = "parsed"
    /\ UNCHANGED <<raw, error, all_tasks, aggregated>>
    /\ UNCHANGED <<textVars, configVars, drawVars, colorVars>>

\* generate, line 87.
MergeThreads ==
    /\ pc = "parsed"
    /\ merged' = merge_threads(threads, sort_by_cpu)
    /\ pc' = "merged"
    /\ UNCHANGED <<root, frames, filtered, error>>
    /\ UNCHANGED <<textVars, parseVars, configVars, colorVars>>

\* generate, line 88.
BuildTree ==
    /\ pc = "merged"
    /\ root' = build_tree(merged, total_cpu_time)
    /\ pc' = "built"
    /\ UNCHANGED <<merged, frames, filtered, error>>
    /\ UNCHANGED <<textVars, parseVars, configVars, colorVars>>

\* generate, line 89.
AssignColors ==
    /\ pc = "built"
    /\ LET r == assign_colors(root, color_theme, hash_seed, rng)
       IN  root' = r.node /\ rng' = r.state
    /\ pc' = "coloured"
    /\ UNCHANGED <<merged, frames, filtered, hash_seed, calls, error>>
    /\ UNCHANGED <<textVars, parseVars, configVars>>

\* generate, line 90.
CalculateLayout ==
    /\ pc = "coloured"
    /\ root' = calculate_layout(root, total_cpu_time, width, xpad)
    /\ pc' = "laid out"
    /\ UNCHANGED <<merged, frames, filtered, error>>
    /\ UNCHANGED <<textVars, parseVars, configVars, colorVars>>

\* generate, line 91.
CollectFrames ==
    /\ pc = "laid out"
    /\ frames' = collect_frames(root)
    /\ pc' = "collected"
    /\ UNCHANGED <<merged, root, filtered, error>>
    /\ UNCHANGED <<textVars, parseVars, configVars, colorVars>>

\* generate, line 92; float() raises ValueError on a minwidth that is no number.
FilterByMinwidth ==
    /\ pc = "collected"
    /\ LET r == filter_by_minwidth(frames, minwidth, width, xpad)
       IN  IF r.exc # ""
           THEN /\ pc' = "raised"
                /\ error' = r.exc
                /\ UNCHANGED filtered
           ELSE /\ pc' = "filtered"
                /\ filtered' = r.frames
                /\ UNCHANGED error
    /\ UNCHANGED <<merged, root, frames>>
    /\ UNCHANGED <<textVars, parseVars, configVars, colorVars>>

\* One call of namehash on the label at hand.
Namehash ==
    /\ pc = "hash"
    /\ calls' = <<[name |-> text, value |-> namehash(text)]>>
    /\ pc' = "hashed"
    /\ UNCHANGED <<hash_seed, rng, error>>
    /\ UNCHANGED <<textVars, parseVars, configVars, drawVars>>

\* main, lines 218-220 and 299-338 (single graph): no data ends the run with
\* status 0 and no file; an exception of generate is reported and ends it
\* with status 1; otherwise the SVG is written.
MainSingleGraph ==
    /\ pc = "main"
    /\ IF threads = <<>>
       THEN /\ pc' = "exit 0, nothing written"
            /\ UNCHANGED <<error, drawVars, rng>>
       ELSE \E g \in {call_generate(SingleGraphKeywords, threads, total_cpu_time, sort_by_cpu,
                                    color_theme, hash_seed, rng, width, xpad, minwidth)} :
                /\ pc' = IF g.exc # "" THEN "exit 1" ELSE "written"
                /\ error' = g.exc
                /\ merged' = g.merged /\ root' = g.root
                /\ frames' = g.frames /\ filtered' = g.filtered
                /\ rng' = g.state
    /\ UNCHANGED <<hash_seed, calls>>
    /\ UNCHANGED <<textVars, parseVars, configVars>>

\* main, lines 218-220 and 237-297 (per node): a generate call that raises
\* is reported and the loop continues with the next node; main then returns.
\* The variables of generate keep the graph of the last node written.
MainPerNode ==
    /\ pc = "main per node"
    /\ IF threads = <<>>
       THEN /\ pc' = "exit 0, nothing written"
            /\ UNCHANGED <<error, drawVars, rng>>
       ELSE \E g \in {per_node_graphs(threads, sort_by_cpu, color_theme, hash_seed, rng,
                                       width, xpad, minwidth)} :
              \E done \in {{k \in DOMAIN g : g[k].exc = ""}},
                 failed \in {{k \in DOMAIN g : g[k].exc # ""}} :
                /\ pc' = IF done = {} THEN "exit 0, nothing written" ELSE "written"
                /\ error' = IF failed = {} THEN ""
                            ELSE g[CHOOSE k \in failed : \A j \in failed : j <= k].exc
                /\ IF done = {} THEN UNCHANGED <<drawVars, rng>>
                   ELSE \E last \in {g[CHOOSE k \in done : \A j \in done : j <= k]} :
                            /\ merged' = last.merged /\ root' = last.root
                            /\ frames' = last.frames /\ filtered' = last.filtered
                            /\ rng' = last.state
    /\ UNCHANGED <<hash_seed, calls>>
    /\ UNCHANGED <<textVars, parseVars, configVars>>

\* MixedParser.generate_flamegraphs, lines 152-183, for one section of the
\* input: no call when the section has no threads; an exception of generate
\* is not handled and leaves the method.
GenerateFlamegraphs ==
    /\ pc = "generate_flamegraphs"
    /\ IF threads = <<>>
       THEN /\ pc' = "returned, nothing written"
            /\ UNCHANGED <<error, drawVars, rng>>
       ELSE \E g \in {call_generate(MixedKeywords, threads, total_cpu_time, sort_by_cpu,
                                    color_theme, hash_seed, rng, width, xpad, minwidth)} :
                /\ pc' = IF g.exc # "" THEN "raised" ELSE "written"
                /\ error' = g.exc
                /\ merged' = g.merged /\ root' = g.root
                /\ frames' = g.frames /\ filtered' = g.filtered
                /\ rng' = g.state
    /\ UNCHANGED <<hash_seed, calls>>
    /\ UNCHANGED <<textVars, parseVars, configVars>>

\* HotThreadsParser.parse_text on the lines of the text.
ParseHotThreads ==
    /\ pc = "hot threads"
    /\ LET data == hot_threads_parse_text(text)
       IN  /\ threads' = data.threads
           /\ total_cpu_time' = data.total_cpu_time
           /\ node_count' = data.node_count
    /\ pc' = "parsed"
    /\ UNCHANGED <<raw, all_tasks, aggregated, error>>
    /\ UNCHANGED <<textVars, configVars, drawVars, colorVars>>

\* One call of get_color from a caller in the process.
GetColor ==
    /\ pc = "colour"
    /\ Len(calls) < MaxCalls
    /\ \E name \in Labels, theme \in Themes :
         LET r == get_color(hash_seed, name, theme, rng)
         IN  /\ calls' = Append(calls, [name |-> name, theme |-> theme, color |-> r.color])
             /\ rng' = r.state
    /\ UNCHANGED <<hash_seed, pc, error>>
    /\ UNCHANGED <<textVars, parseVars, configVars, drawVars>>

Next ==
    \/ ParseTasks
    \/ AggregateByHierarchy
    \/ ReturnParsedData
    \/ MergeThreads
    \/ BuildTree

Spec == Init /\ [][Next]_vars

\* parse_text alone, up to the aggregation.
NextAggregate ==
    \/ ParseTasks
    \/ AggregateByHierarchy

SpecUniqueIds == InitUniqueIds /\ [][NextAggregate]_vars

SpecFields == InitFields /\ [][NextAggregate]_vars

\* parse_text from the text to the ParsedData.
NextParseText ==
    \/ LoadDocuments
    \/ ExtractAndParse
    \/ AggregateByHierarchy
    \/ ReturnParsedData

SpecText == InitText /\ [][NextParseText]_vars

\* generate on a ParsedData, up to the filtered frame list.
NextGenerate ==
    \/ MergeThreads
    \/ BuildTree
    \/ AssignColors
    \/ CalculateLayout
    \/ CollectFrames
    \/ FilterByMinwidth

SpecLayout == InitLayout /\ [][NextGenerate]_vars

\* parse_text on task objects followed by generate on its ParsedData.
NextPipeline ==
    \/ ParseTasks
    \/ AggregateByHierarchy
    \/ ReturnParsedData
    \/ MergeThreads
    \/ BuildTree
    \/ AssignColors
    \/ CalculateLayout
    \/ CollectFrames
    \/ FilterByMinwidth

SpecPipeline == InitUniqueIds /\ [][NextPipeline]_vars

\* generate on records with the special labels.
SpecLabels == InitLabels /\ [][NextGenerate]_vars

\* A call of namehash.
SpecHash == InitHash /\ [][Namehash]_vars

\* The callers of generate.
NextMain ==
    \/ MainSingleGraph
    \/ MainPerNode
    \/ GenerateFlamegraphs

SpecMain == InitMain /\ [][NextMain]_vars

\* generate under the cpu theme.
SpecCpuTheme == InitCpuTheme /\ [][NextGenerate]_vars

\* HotThreadsParser.parse_text.
SpecHotThreads == InitHotThreads /\ [][ParseHotThreads]_vars

\* parse_text and generate on task graphs over the nodes "n1" and "all".
SpecSpecialNames == InitSpecialNames /\ [][NextPipeline]_vars

\* Calls of get_color in one process.
SpecColor == InitColor /\ [][GetColor]_vars

(***************************************************************************)
(* TasksParser._aggregate_tasks (flat grouping by node_id and action).     *)
(***************************************************************************)
RECURSIVE aggregate_tasks(_, _, _)
aggregate_tasks(tasks, i, result) ==
    IF i > Len(tasks) THEN result
    ELSE LET task == tasks[i]
             hit == {k \in 1..Len(result) :
                        /\ result[k].node_id = task.node_id
                        /\ result[k].action = task.action}
         IN  IF hit # {}
             THEN LET k == CHOOSE k \in hit : TRUE
                  IN  aggregate_tasks(tasks, i + 1,
                        [result EXCEPT
                           ![k].total_time = result[k].total_time + task.running_time_nanos,
                           ![k].task_count = result[k].task_count + 1,
                           ![k].description =
                               IF task.description # <<>> /\ result[k].description = <<>>
                               THEN task.description ELSE result[k].description])
             ELSE aggregate_tasks(tasks, i + 1,
                        Append(result,
                               [node_id     |-> task.node_id,
                                action      |-> task.action,
                                total_time  |-> task.running_time_nanos,
                                task_count  |-> 1,
                                description |-> task.description]))

(***************************************************************************)
(* Vocabulary of the properties.                                           *)
(***************************************************************************)
RECURSIVE SumOver(_, _)
SumOver(S, f) ==
    IF S = {} THEN 0
    ELSE LET x == CHOOSE x \in S : TRUE IN f[x] + SumOver(S \ {x}, f)

Aggregated == pc \in {"convert", "parsed", "merged", "built"}

Indices == 1..Len(all_tasks)

\* A root record: its parent id is absent or names no record of the batch.
RootRecord(i) == is_root(all_tasks, all_tasks[i])

\* Record k carries a parent link to record j.
ParentLink(k, j) ==
    /\ all_tasks[k].parent_task_id # ""
    /\ all_tasks[k].parent_task_id = all_tasks[j].task_id

\* The records reachable from record i through parent links, i included.
RECURSIVE ReachFrom(_)
ReachFrom(S) ==
    LET more == {k \in Indices : \E j \in S : ParentLink(k, j)} \ S
    IN  IF more = {} THEN S ELSE ReachFrom(S \cup more)

Reach(i) == ReachFrom({i})

SameKey(i, j) ==
    /\ all_tasks[i].node_id = all_tasks[j].node_id
    /\ all_tasks[i].action = all_tasks[j].action

EntriesOf(node_id, action) ==
    {k \in 1..Len(aggregated) :
        aggregated[k].node_id = node_id /\ aggregated[k].action = action}

UniqueIds ==
    \A i, j \in Indices : all_tasks[i].task_id = all_tasks[j].task_id => i = j

(***************************************************************************)
(* Properties.                                                             *)
(***************************************************************************)
\* C1: _aggregate_by_hierarchy returns a result for every batch; the
\* recursion of _accumulate_task_time never runs away (no RecursionError).
C1_AggregationTerminates == error # "RecursionError"

\* C2: the sum of task_count over the entries returned by
\* _aggregate_by_hierarchy equals the number of input records.
C2_CountConserving ==
    Aggregated =>
        SumSeq([k \in 1..Len(aggregated) |-> aggregated[k].task_count]) = Len(all_tasks)

\* C3: for every root record the entry keyed by its (node_id, action) holds
\* the cost and the count of the root and of every record reachable from it
\* through parent links (summed over the roots that share the key), and every
\* entry is keyed by some root record.
C3_RootEntryAccumulatesDescendants ==
    Aggregated =>
        /\ \A i \in Indices : RootRecord(i) =>
             /\ Cardinality(EntriesOf(all_tasks[i].node_id, all_tasks[i].action)) = 1
             /\ \A k \in EntriesOf(all_tasks[i].node_id, all_tasks[i].action) :
                  LET roots == {j \in Indices : RootRecord(j) /\ SameKey(i, j)}
                      cost  == [j \in Indices |->
                                  SumOver(Reach(j),
                                          [m \in Indices |-> all_tasks[m].running_time_nanos])]
                      count == [j \in Indices |-> Cardinality(Reach(j))]
                  IN  /\ aggregated[k].total_time = SumOver(roots, cost)
                      /\ aggregated[k].task_count = SumOver(roots, count)
        /\ \A k \in 1..Len(aggregated) :
             \E i \in Indices :
                /\ RootRecord(i)
                /\ aggregated[k].node_id = all_tasks[i].node_id
                /\ aggregated[k].action = all_tasks[i].action

\* C4: after _merge_threads and _build_tree the values of the owner-level
\* (depth 1) frames add up to the total_cpu_time that parse_text reports.
C4_OwnerValuesSumToTotal ==
    pc = "built" =>
        SumSeq([k \in 1..Len(root.children) |-> root.children[k].value]) = total_cpu_time

\* C5: in every entry the children list is sorted by non-increasing time and
\* holds at most one summary per (normalized action, description).
C5_ChildrenSortedAndMerged ==
    Aggregated =>
        \A k \in 1..Len(aggregated) :
            LET ch == aggregated[k].children
            IN  /\ \A a, b \in 1..Len(ch) : a < b => ch[a].time >= ch[b].time
                /\ \A a, b \in 1..Len(ch) :
                      (/\ normalize_action_for_merge(ch[a].action) =
                            normalize_action_for_merge(ch[b].action)
                       /\ ch[a].description = ch[b].description) => a = b

EntrySet(result) ==
    {<<result[k].node_id, result[k].action, result[k].total_time, result[k].task_count>> :
        k \in 1..Len(result)}

\* C8: when no record has a parent link, _aggregate_by_hierarchy and
\* _aggregate_tasks give the same entries: the same (node_id, action) keys
\* with the same total_time and task_count.
C8_FlatEqualsHierarchical ==
    (Aggregated /\ \A i \in Indices : all_tasks[i].parent_task_id = "") =>
        /\ EntrySet(aggregated) = EntrySet(aggregate_tasks(all_tasks, 1, <<>>))
        /\ Len(aggregated) = Len(aggregate_tasks(all_tasks, 1, <<>>))

\* The total time per (normalized action, description) key of a children list.
DescendantTotals(children) ==
    {<<normalize_action_for_merge(children[a].action), children[a].description,
       SumSeq([b \in 1..Len(children) |->
                 IF /\ normalize_action_for_merge(children[b].action) =
                         normalize_action_for_merge(children[a].action)
                    /\ children[b].description = children[a].description
                 THEN children[b].time ELSE 0])>> : a \in 1..Len(children)}

Summary(result) ==
    {<<result[k].node_id, result[k].action, result[k].total_time, result[k].task_count,
       DescendantTotals(result[k].children)>> : k \in 1..Len(result)}

Permuted(p) == [i \in Indices |-> all_tasks[p[i]]]

\* The root ids in order of first occurrence in the batch.
RootOrderOf(tasks) ==
    LET roots == SelectSeq(tasks, LAMBDA t : is_root(tasks, t))
    IN  first_occurrences([i \in 1..Len(roots) |-> roots[i].task_id], 1, <<>>)

AggregateOf(tasks) == aggregate_by_hierarchy(tasks, RootOrderOf(tasks))

\* C7: for a batch with unique task ids, every permutation of the records
\* gives the same (node_id, action) keys, the same total_time and task_count
\* per key and the same total time per (normalized action, description)
\* descendant key, and raises exactly when the batch as given raises.
C7_OrderIndependent ==
    /\ (Aggregated /\ UniqueIds) =>
          \A p \in Orders(Indices) :
             /\ ~AggregateOf(Permuted(p)).overflow
             /\ Summary(AggregateOf(Permuted(p)).result) = Summary(aggregated)
    /\ (error = "RecursionError" /\ UniqueIds) =>
          \A p \in Orders(Indices) : AggregateOf(Permuted(p)).overflow

\* C7 witness: a root and two descendants, with unique ids, folded into one
\* entry whose summaries collide on one descendant key, and of which some
\* permutation yields a different children list.
C7_Witness ==
    /\ Aggregated /\ UniqueIds
    /\ Len(all_tasks) = 3
    /\ all_tasks[1].parent_task_id = ""
    /\ all_tasks[2].parent_task_id = all_tasks[1].task_id
    /\ all_tasks[3].parent_task_id \in {all_tasks[1].task_id, all_tasks[2].task_id}
    /\ \E k \in 1..Len(aggregated) :
          /\ aggregated[k].task_count = 3
          /\ \E a \in 1..Len(aggregated[k].children) :
                aggregated[k].children[a].time \notin
                    {all_tasks[i].running_time_nanos : i \in Indices}
    /\ \E p \in Orders(Indices) : AggregateOf(Permuted(p)).result # aggregated

\* C6: every record folded into an entry contributes its summary to the
\* entry's children list, whatever its description: the times of the
\* summaries add up to the entry's total_time.
C6_EveryFoldedRecordSummarised ==
    Aggregated =>
        \A k \in 1..Len(aggregated) :
            SumSeq([a \in 1..Len(aggregated[k].children) |->
                       aggregated[k].children[a].time]) = aggregated[k].total_time

\* The action of a raw task is missing or the empty string.
NoCategory(task) ==
    \/ task.action.kind = "absent"
    \/ task.action.kind = "str" /\ task.action.text = <<>>

\* C9: a task whose action is missing or is the empty string is aggregated
\* under the category "unknown": it is counted in the "unknown" entry of its
\* node and no entry has the empty category.
C9_EmptyCategoryIsUnknown ==
    Aggregated =>
        /\ \A i \in 1..Len(raw) : NoCategory(raw[i]) =>
              /\ all_tasks[i].action = UNKNOWN
              /\ EntriesOf(all_tasks[i].node_id, UNKNOWN) # {}
        /\ \A k \in 1..Len(aggregated) : aggregated[k].action # <<>>

\* The malformed shapes of running_time_in_nanos: absent, null, text that is
\* no number, a non-numeric type.
NonNumericText(cs) ==
    \/ cs = <<>>
    \/ \E i \in 1..Len(cs) : cs[i] \notin Digits \cup {" ", "+", "-"}

Malformed(v) ==
    \/ v.kind \in {"absent", "null", "list"}
    \/ v.kind = "str" /\ NonNumericText(v.text)

MalformedCost(i) == Malformed(raw[i].running_time_in_nanos)

\* C10: a task whose running_time_in_nanos is absent, null, non-numeric
\* text or of a non-numeric type is parsed with cost 0, _parse_task does not
\* raise on it, and the record is kept and counted once in the entry of its
\* (node_id, action).
C10_MalformedCostIsZero ==
    /\ \A i \in 1..Len(raw) : MalformedCost(i) =>
          /\ parse_task(raw[i]).exc = ""
          /\ parse_task(raw[i]).info.running_time_nanos = 0
    /\ pc = "raised" => \E i \in 1..Len(raw) : ~MalformedCost(i)
    /\ pc \in {"aggregate", "convert"} =>
          /\ Len(all_tasks) = Len(raw)
          /\ \A i \in 1..Len(raw) : MalformedCost(i) => all_tasks[i].running_time_nanos = 0
    /\ pc = "convert" =>
          \A i \in 1..Len(raw) : MalformedCost(i) =>
             \A k \in EntriesOf(all_tasks[i].node_id, all_tasks[i].action) :
                /\ aggregated[k].task_count =
                      Cardinality({j \in Indices : SameKey(i, j)})
                /\ aggregated[k].total_time =
                      SumOver({j \in Indices : SameKey(i, j) /\ ~MalformedCost(j)},
                              [j \in Indices |-> all_tasks[j].running_time_nanos])

\* C10 witness: a batch holding a null, a non-numeric text and a list cost,
\* aggregated into one entry of count 3 and cost 0.
C10_Witness ==
    /\ pc = "convert"
    /\ {raw[i].running_time_in_nanos.kind : i \in 1..Len(raw)} = {"null", "str", "list"}
    /\ \A i \in 1..Len(raw) : MalformedCost(i)
    /\ \E k \in 1..Len(aggregated) :
          aggregated[k].task_count = 3 /\ aggregated[k].total_time = 0

\* The documents of data_list that are JSON objects.
RecoveredObjects == {k \in 1..Len(data_list) : data_list[k].kind = "dict"}

\* C11: parse_text raises exactly when no JSON object is recovered from the
\* text, and what it raises then is ValueError; whenever an object is
\* recovered it does not raise, whatever the shape of the records inside.
C11_OnlyUnparseableTextIsFatal ==
    /\ pc = "raised" => RecoveredObjects = {}
    /\ pc = "raised" /\ data_list = <<>> => error = "ValueError"
    /\ pc = "parsed" => RecoveredObjects # {}

\* C12: for an empty batch nothing raises: the aggregation returns the empty
\* map, parse_text a ParsedData without threads and with total 0, and the
\* steps of generate up to _filter_by_minwidth an empty frame list.
C12_EmptyBatchSucceeds ==
    raw = <<>> =>
        /\ pc # "raised" /\ error = ""
        /\ aggregated = <<>>
        /\ threads = <<>> /\ total_cpu_time = 0
        /\ merged = <<>>
        /\ root.children = <<>>
        /\ frames = <<>>
        /\ filtered = <<>>

\* C12 witness: generate has run to its last step on the empty batch.
C12_Witness ==
    /\ raw = <<>>
    /\ pc = "filtered"
    /\ root.name = ALL /\ root.children = <<>>
    /\ filtered = <<>>

\* The tree holds the layout that _calculate_layout computed.
LaidOut == pc \in {"laid out", "collected", "filtered"}

\* The owner-level (depth 1) frames, left to right.
Owners == root.children

\* C13: after _calculate_layout with total > 0 the first owner starts at
\* xpad, every later owner starts where the owner before it ends, and the
\* width of every owner is (value / total) * (width - 2 * xpad).
C13_OwnersContiguousProportional ==
    (LaidOut /\ total_cpu_time > 0) =>
        \A k \in 1..Len(Owners) :
            /\ IF k = 1
               THEN REq(Owners[k].x, RInt(xpad))
               ELSE REq(Owners[k].x, RAdd(Owners[k - 1].x, Owners[k - 1].width))
            /\ Owners[k].width.num * total_cpu_time =
                   Owners[k].value * (width - 2 * xpad) * Owners[k].width.den

\* C13 witness: two owners of different positive value share the width; the
\* second one starts right of xpad.
C13_Witness ==
    /\ LaidOut /\ total_cpu_time > 0
    /\ Len(Owners) = 2
    /\ Owners[1].value > Owners[2].value /\ Owners[2].value > 0
    /\ RLess(RInt(xpad), Owners[2].x)
    /\ REq(RAdd(Owners[2].x, Owners[2].width), RInt(width - xpad))

\* The right edge of a frame.
RightEdge(frame) == RAdd(frame.x, frame.width)

\* C14: after _calculate_layout the category frames of every owner are laid
\* out one after the other from the owner's x, each lies inside the owner's
\* span [x, x + width], each has width (value / owner value) * owner width,
\* and their widths add up to the owner's width when the owner's value is
\* positive.
C14_CategoriesInsideOwner ==
    LaidOut =>
        \A k \in 1..Len(Owners) :
            LET owner == Owners[k]
                cats  == owner.children
            IN  /\ \A j \in 1..Len(cats) :
                      /\ IF j = 1
                         THEN REq(cats[j].x, owner.x)
                         ELSE REq(cats[j].x, RightEdge(cats[j - 1]))
                      /\ RLeq(owner.x, cats[j].x)
                      /\ RLeq(RightEdge(cats[j]), RightEdge(owner))
                      /\ owner.value # 0 =>
                            REq(RMul(cats[j].width, RInt(owner.value)),
                                RMul(RInt(cats[j].value), owner.width))
                /\ (owner.value > 0 /\ cats # <<>>) =>
                      REq(RightEdge(cats[Len(cats)]), RightEdge(owner))

TreeFrames ==
    {Owners[k] : k \in 1..Len(Owners)}
        \cup UNION {{Owners[k].children[j] : j \in 1..Len(Owners[k].children)} :
                       k \in 1..Len(Owners)}

\* C16: when _calculate_layout runs with total = 0, every frame of the
\* tree, owner and category alike, ends with percentage 0 and width 0, and
\* nothing is raised.
C16_ZeroTotalAllZero ==
    (LaidOut /\ total_cpu_time = 0) =>
        /\ error = ""
        /\ \A f \in TreeFrames :
              REq(f.percentage, RInt(0)) /\ REq(f.width, RInt(0))

\* C16, amended: with total = 0 every frame ends with width 0 and nothing
\* is raised; an owner frame keeps percentage 100, and a category frame has
\* percentage 0 when its owner's value is not positive.
C16_ZeroTotalZeroWidth ==
    (LaidOut /\ total_cpu_time = 0) =>
        /\ error = ""
        /\ \A f \in TreeFrames : REq(f.width, RInt(0))
        /\ \A k \in 1..Len(Owners) :
              /\ REq(Owners[k].percentage, RInt(100))
              /\ Owners[k].value <= 0 =>
                    \A j \in 1..Len(Owners[k].children) :
                        REq(Owners[k].children[j].percentage, RInt(0))

\* C16 witness: a layout with total 0 of two owners of value 0 with a
\* category each: all widths are 0, the owners stand at 100 percent and the
\* categories at 0.
C16_Witness ==
    /\ LaidOut /\ total_cpu_time = 0
    /\ Len(Owners) = 2
    /\ \A k \in 1..2 :
          /\ Owners[k].value = 0
          /\ Owners[k].children # <<>>
          /\ REq(Owners[k].percentage, RInt(100))
          /\ REq(Owners[k].children[1].percentage, RInt(0))
          /\ REq(Owners[k].x, RInt(xpad))
    /\ \A f \in TreeFrames : REq(f.width, RInt(0))

\* The threshold that minwidth states: a percentage of the drawable width
\* when it ends with the percent sign, a number of pixels otherwise.
PercentMode == minwidth # <<>> /\ minwidth[Len(minwidth)] = "%"

Threshold ==
    IF PercentMode
    THEN RDiv(RMul(RInt(width - 2 * xpad), FloatOfText(RStripPercent(minwidth)).val),
              RInt(100))
    ELSE FloatOfText(minwidth).val

\* The positions of the collected frames that are not narrower than the
\* threshold, and the i-th of them from the left.
Retained == {k \in 1..Len(frames) : ~RLess(frames[k].width, Threshold)}

NthRetained(i) == CHOOSE k \in Retained : Cardinality({j \in Retained : j <= k}) = i

\* C17: _filter_by_minwidth removes exactly the frames whose width is below
\* the threshold, keeps the others in their order, and returns each of them
\* as it was collected: x, y, width, value, percentage and every other field.
C17_FilterRemovesExactlyNarrow ==
    pc = "filtered" =>
        /\ Len(filtered) = Cardinality(Retained)
        /\ \A i \in 1..Len(filtered) : filtered[i] = frames[NthRetained(i)]

\* C17 witness: of three or more collected frames one is dropped, one that
\* is exactly as wide as the threshold is kept, in percent mode.
C17_Witness ==
    /\ pc = "filtered"
    /\ PercentMode
    /\ Len(frames) >= 3
    /\ Len(filtered) < Len(frames)
    /\ \E i \in 1..Len(filtered) : REq(filtered[i].width, Threshold)
    /\ \E i \in 1..Len(filtered) : RLess(Threshold, filtered[i].width)

\* The tree has been built from the merged threads.
Built == pc \in {"built", "coloured", "laid out", "collected", "filtered"}

\* The generator was built from an argument list that leaves sort_by_cpu out.
BuiltWithoutSortArgument ==
    \E g \in GeneratorArgs :
        /\ "sort_by_cpu" \notin g.given
        /\ width = (IF "width" \in g.given THEN g.args.width ELSE DefaultWidth)
        /\ xpad = (IF "xpad" \in g.given THEN g.args.xpad ELSE DefaultXpad)
        /\ minwidth = (IF "minwidth" \in g.given THEN g.args.minwidth ELSE DefaultMinwidth)
        /\ color_theme = (IF "color_theme" \in g.given THEN g.args.color_theme
                          ELSE DefaultColorTheme)

\* The position in the input of the first record of a node and category.
FirstRecord(node_id, name) ==
    CHOOSE i \in 1..Len(threads) :
        /\ threads[i].node_id = node_id /\ threads[i].thread_name = name
        /\ \A j \in 1..(i - 1) :
              ~(threads[j].node_id = node_id /\ threads[j].thread_name = name)

\* The category frames of an owner are the categories of its records, once each.
CategoriesOnce(owner) ==
    /\ {owner.children[j].name : j \in 1..Len(owner.children)} =
          {threads[i].thread_name : i \in {i \in 1..Len(threads) : threads[i].node_id = owner.name}}
    /\ \A i, j \in 1..Len(owner.children) :
          owner.children[i].name = owner.children[j].name => i = j

\* C18: a generator built without the sort_by_cpu argument has the flag
\* off; with the flag on the category frames of every owner stand in
\* non-increasing value order, with the flag off in the order in which the
\* categories first occur in the input records.
C18_SortIsAnOption ==
    /\ BuiltWithoutSortArgument => ~sort_by_cpu
    /\ Built =>
          \A k \in 1..Len(Owners) :
              LET cats == Owners[k].children
              IN  /\ CategoriesOnce(Owners[k])
                  /\ \A i, j \in 1..Len(cats) : i < j =>
                        IF sort_by_cpu
                        THEN cats[i].value >= cats[j].value
                        ELSE FirstRecord(Owners[k].name, cats[i].name) <
                                 FirstRecord(Owners[k].name, cats[j].name)

\* C18 witness: with the flag on, an owner's two categories stand in
\* decreasing value order although the smaller one came first in the input.
C18_Witness ==
    /\ Built /\ sort_by_cpu
    /\ \E k \in 1..Len(Owners) :
          LET cats == Owners[k].children
          IN  /\ Len(cats) = 2
              /\ cats[1].value > cats[2].value
              /\ FirstRecord(Owners[k].name, cats[2].name) <
                     FirstRecord(Owners[k].name, cats[1].name)

\* The calls of get_color made so far.
Calls == 1..Len(calls)

\* The themes of the command line, and one that get_color does not know.
AllThemes == NamedThemes \cup {"java", "cpu", "none"}

\* C19: get_color returns rgb(200, 200, 200) for the label "-" and
\* rgb(160, 160, 160) for the label "--" under every theme, the java theme
\* and a theme get_color does not know included.
C19_SeparatorsAreGray ==
    /\ \A i \in Calls :
          /\ calls[i].name = <<"-">> => calls[i].color = "rgb(200, 200, 200)"
          /\ calls[i].name = <<"-", "-">> => calls[i].color = "rgb(160, 160, 160)"
    /\ \A theme \in AllThemes :
          /\ get_color(hash_seed, <<"-">>, theme, rng).color = "rgb(200, 200, 200)"
          /\ get_color(hash_seed, <<"-", "-">>, theme, rng).color = "rgb(160, 160, 160)"

\* C19 witness: "-" was coloured under the java theme, "--" under a theme
\* that get_color does not know, and another label got another colour.
C19_Witness ==
    /\ \E i \in Calls : calls[i].name = <<"-">> /\ calls[i].theme = "java"
    /\ \E i \in Calls :
          /\ calls[i].name = <<"-", "-">>
          /\ calls[i].theme \notin NamedThemes \cup {"java"}
    /\ \E i \in Calls :
          calls[i].color \notin {"rgb(200, 200, 200)", "rgb(160, 160, 160)"}

\* C20: within one process get_color returns the same colour for the same
\* label and theme at every position of a sequence of calls, and the colour
\* of a call is the one get_color returns from any state of the shared
\* generator (stated of the latest call; the earlier ones were the latest).
C20_ColorIgnoresEarlierCalls ==
    /\ \A i, j \in Calls :
          (calls[i].name = calls[j].name /\ calls[i].theme = calls[j].theme) =>
              calls[i].color = calls[j].color
    /\ calls # <<>> =>
          \A state \in 0..(RngModulus - 1) :
              get_color(hash_seed, calls[Len(calls)].name, calls[Len(calls)].theme,
                        state).color = calls[Len(calls)].color

\* C20 witness: a label is coloured, then another label that gets another
\* colour and leaves the generator in another state, then the first label
\* again under the same theme, with the colour of the first call.
C20_Witness ==
    /\ Len(calls) = 3
    /\ calls[1].name = calls[3].name /\ calls[1].theme = calls[3].theme
    /\ calls[1].name \notin {<<"-">>, <<"-", "-">>}
    /\ calls[2].name \notin {calls[1].name, <<"-">>, <<"-", "-">>}
    /\ calls[2].color # calls[1].color
    /\ calls[3].color = calls[1].color
    /\ get_color(hash_seed, calls[1].name, calls[1].theme, 0).state #
          get_color(hash_seed, calls[2].name, calls[2].theme, 0).state

\* The labels of get_color that are hashed (not the two separators).
Hashed(name) == name \notin {<<"-">>, <<"-", "-">>}



\* C21 as stated: for one label the values v1, v2, v3 are three successive
\* draws of the generator seeded from the label's hash; the generator
\* advances between the draws, so they are not one draw repeated three times.
C21_ThreeDistinctDraws ==
    \A i \in Calls :
        Hashed(calls[i].name) =>
            LET d == three_draws(hash_seed, calls[i].name, rng)
            IN  ~(d[1].value = d[2].value /\ d[2].value = d[3].value)

\* C21 amended: the generator is seeded from the label's hash before each of
\* the three draws, so v1 = v2 = v3 is the first draw after seeding, repeated,
\* and it is the same from every state of the generator (stated of the
\* latest call; the earlier ones were the latest).
C21_OneDrawRepeated ==
    (calls # <<>> /\ Hashed(calls[Len(calls)].name)) =>
        LET name == calls[Len(calls)].name
            first == random_random(random_seed(sum_namehash(hash_seed, name)))
        IN  \A state \in 0..(RngModulus - 1) :
                LET d == three_draws(hash_seed, name, state)
                IN  d[1] = first /\ d[2] = first /\ d[3] = first

\* C21 witness: a hashed label was coloured under the hot theme, whose three
\* channels take v3, v1 and v2, and the colour is the one of a single value.
C21_Witness ==
    \E i \in Calls :
        /\ Hashed(calls[i].name)
        /\ calls[i].theme = "hot"
        /\ LET d == three_draws(hash_seed, calls[i].name, rng)
           IN  /\ d[1].value = d[3].value
               /\ d[1].value.num > 0
               /\ calls[i].color = color_hot(d[1].value, d[1].value, d[1].value)

\* The decimal texts of the integers 0 .. 255.
ChannelTexts == {ToString(n) : n \in 0..255}

\* A channel as it stands in a colour, without the blank after a comma.
Unblank(t) == IF Len(t) > 1 /\ SubSeq(t, 1, 1) = " " THEN SubSeq(t, 2, Len(t)) ELSE t

\* The colour reads rgb(r,g,b) with three integers of 0 .. 255.
InRgbRange(color) ==
    LET n == Len(color)
    IN  /\ n >= 10
        /\ SubSeq(color, 1, 4) = "rgb("
        /\ SubSeq(color, n, n) = ")"
        /\ \E i, j \in 5..(n - 1) :
              /\ i < j
              /\ SubSeq(color, i, i) = ","
              /\ SubSeq(color, j, j) = ","
              /\ Unblank(SubSeq(color, 5, i - 1)) \in ChannelTexts
              /\ Unblank(SubSeq(color, i + 1, j - 1)) \in ChannelTexts
              /\ Unblank(SubSeq(color, j + 1, n - 1)) \in ChannelTexts

\* C22: get_color returns rgb(r,g,b) with every channel an integer of
\* 0 .. 255, for every label and every theme (the twelve named themes, java
\* and a theme it does not know), the draws being in [0, 1).  Every call made
\* is looked at when it is the latest one; every label and theme is looked at
\* from every salt and generator state a process starts with.
C22_ChannelsInRange ==
    /\ calls # <<>> => InRgbRange(calls[Len(calls)].color)
    /\ calls = <<>> =>
          \A name \in Labels, theme \in AllThemes :
              InRgbRange(get_color(hash_seed, name, theme, rng).color)

\* C22 witness: hashed labels were coloured under the hot theme, the java
\* theme and a theme get_color does not know, and a red channel above the
\* base of its formula shows that a draw other than 0 went into it.
C22_Witness ==
    /\ \E i \in Calls : Hashed(calls[i].name) /\ calls[i].theme = "hot"
    /\ \E i \in Calls : Hashed(calls[i].name) /\ calls[i].theme = "java"
    /\ \E i \in Calls :
          /\ Hashed(calls[i].name)
          /\ calls[i].theme \notin NamedThemes \cup {"java"}
          /\ InRgbRange(calls[i].color)
          /\ SubSeq(calls[i].color, 1, 8) # "rgb(205,"

\* The tree has been through _assign_colors.
Coloured == pc \in {"coloured", "laid out", "collected", "filtered", "raised"}

\* The nodes below the owners (depth 2), in tree order.
Categories == Flatten([k \in DOMAIN Owners |-> Owners[k].children])

\* The colour get_color gives a label under the configured theme.
HashColor(name) == get_color(hash_seed, name, color_theme, rng).color

\* C23 as stated: in hash-colouring mode (any theme but cpu) _assign_colors
\* gives every non-root node of the tree, owner-level nodes included, the
\* colour get_color(node label, configured theme).
C23_EveryNodeHashColoured ==
    (Coloured /\ color_theme # "cpu") =>
        /\ \A k \in DOMAIN Owners : Owners[k].color = HashColor(Owners[k].name)
        /\ \A k \in DOMAIN Categories : Categories[k].color = HashColor(Categories[k].name)

\* C23 amended: in hash-colouring mode an owner-level node has the fixed
\* colour rgb(100, 120, 160) and a node below an owner has the colour
\* get_color(node label, configured theme), unless the node is labelled "all":
\* such a node keeps the white it was constructed with.
C23_OwnersFixedCategoriesHashed ==
    (Coloured /\ color_theme # "cpu") =>
        /\ \A k \in DOMAIN Owners :
              Owners[k].color =
                  IF Owners[k].name = ALL THEN "rgb(255,255,255)" ELSE "rgb(100, 120, 160)"
        /\ \A k \in DOMAIN Categories :
              Categories[k].color =
                  IF Categories[k].name = ALL THEN "rgb(255,255,255)"
                  ELSE HashColor(Categories[k].name)

\* C23 witness: under a hash theme an owner has the fixed colour while
\* get_color gives its label another one, and a node below it has the colour
\* of its label, which is neither the fixed colour nor white.
C23_Witness ==
    /\ Coloured /\ color_theme # "cpu"
    /\ \E k \in DOMAIN Owners :
          /\ Owners[k].color = "rgb(100, 120, 160)"
          /\ HashColor(Owners[k].name) # "rgb(100, 120, 160)"
          /\ \E c \in DOMAIN Owners[k].children :
                /\ Owners[k].children[c].color = HashColor(Owners[k].children[c].name)
                /\ Owners[k].children[c].color \notin {"rgb(100, 120, 160)", "rgb(255,255,255)"}

\* C24: namehash takes every character of the label into account (after
\* stripping the text up to the final backtick), each adding
\* (codepoint mod M)/(M-1) times a weight decaying by 0.70; the result is in
\* [0, 1], and two labels that differ at any position, such as
\* java.lang.Thread.run and java.lang.Thread.sleep, get different hashes.
C24_EveryCharacterCounts ==
    pc = "hashed" =>
        LET h == calls[1].value
        IN  /\ RLeq(RInt(0), h) /\ RLeq(h, RInt(1))
            /\ \A other \in HashNames :
                  strip_module(other) # strip_module(text) => namehash(other) # h

\* The objects among the segments of a text, in order: what a scan that
\* skips every other segment returns.
ValidObjects(segments) ==
    Flatten([k \in DOMAIN segments |->
                LET v == json_loads(segments[k])
                IN  IF v.ok /\ v.val.kind = "dict" THEN <<v.val>> ELSE <<>>])

\* C25: for a text of JSON objects one after the other _parse_multiple_json
\* returns exactly those objects, in order; a segment that is no valid JSON
\* or has unbalanced braces, such as a stray closing brace, is skipped and
\* the scan goes on, so every valid object after it is still returned.
C25_ScanRecoversEveryObject ==
    pc # "load" =>
        \A f1, f2 \in Fragments :
            text = f1 \o f2 => parse_multiple_json(text) = ValidObjects(<<f1, f2>>)

\* C26: every caller of FlameGraphGenerator.generate (main in single-graph
\* mode, main in per-node mode, MixedParser.generate_flamegraphs) calls it with
\* arguments it accepts, so for an input that parses to at least one record
\* the run ends with the SVG written and without an error.
C26_EveryCallerWritesSvg ==
    (pc \notin Callers /\ threads # <<>>) => (pc = "written" /\ error = "")

\* The channels of a colour rgb(r,g,b), as numbers.
Channels(color) ==
    LET n == Len(color)
        cut == CHOOSE c \in (5..(n - 1)) \X (5..(n - 1)) :
                   /\ c[1] < c[2]
                   /\ SubSeq(color, c[1], c[1]) = ","
                   /\ SubSeq(color, c[2], c[2]) = ","
        value(t) == CHOOSE v \in 0..255 : ToString(v) = Unblank(t)
    IN  <<value(SubSeq(color, 5, cut[1] - 1)),
          value(SubSeq(color, cut[1] + 1, cut[2] - 1)),
          value(SubSeq(color, cut[2] + 1, n - 1))>>

\* C27: the cpu colouring is a monotone gradient from cold to hot: of two
\* frames with whole percents p1 <= p2 the second has no smaller red channel,
\* and once red has reached 255 no larger green channel; red does not jump
\* down at the 20% and 50% boundaries.
C27_CpuGradientMonotone ==
    (Coloured /\ color_theme = "cpu") =>
        \A i, j \in DOMAIN Categories :
            RLeq(Categories[i].cpu_percent, Categories[j].cpu_percent) =>
                LET c1 == Channels(Categories[i].color)
                    c2 == Channels(Categories[j].color)
                IN  /\ c1[1] <= c2[1]
                    /\ c1[1] = 255 => c2[2] <= c1[2]

\* _collect_frames has run.
Collected == pc \in {"collected", "filtered", "raised"}

\* The non-root nodes of the tree: each owner followed by its categories,
\* owners in tree order.
PreOrder == Flatten([k \in DOMAIN Owners |-> <<Owners[k]>> \o Owners[k].children])

\* C28: every non-root node of the built tree is coloured by _assign_colors
\* and appears exactly once in the list of _collect_frames, each owner before
\* its categories and owners in tree order, whatever its label, a node
\* labelled "all" included.
C28_EveryNodeColouredAndCollected ==
    /\ Coloured => \A k \in DOMAIN PreOrder : PreOrder[k].color # "rgb(255,255,255)"
    /\ Collected => frames = PreOrder

\* The cpu usage lines of the text, and the node of the header line that
\* most recently precedes a line (empty when there is none).
CpuLines == {i \in DOMAIN text : cpu_usage_match(text[i])}

NodeBefore(i) ==
    LET headers == {j \in 1..(i - 1) : node_header_match(text[j])}
    IN  IF headers = {} THEN <<>>
        ELSE text[CHOOSE j \in headers : \A h \in headers : h <= j].node_id

\* C29: parse_text attributes every thread record to the node whose header
\* line most recently preceded the thread's cpu usage line (the records
\* follow the order of their cpu usage lines); a node header that comes after
\* the cpu usage line, with or without a blank line before it, does not
\* change the thread's node and is not taken as one of its stack frames.
C29_ThreadBelongsToPrecedingNode ==
    pc = "parsed" =>
        /\ \E line_of \in [DOMAIN threads -> CpuLines] :
              /\ \A k \in DOMAIN threads :
                    /\ k > 1 => line_of[k - 1] < line_of[k]
                    /\ text[line_of[k]].thread_name = threads[k].thread_name
                    /\ NodeBefore(line_of[k]) = threads[k].node_id
        /\ \A k \in DOMAIN threads :
              \A f \in DOMAIN threads[k].stack_frames :
                  ~StartsWith(threads[k].stack_frames[f], <<":", ":", ":">>)

\* The frame is one of the retained frames.
IsRetained(f) == \E i \in DOMAIN filtered : filtered[i] = f

\* C30: for records with non-negative costs, with the total the parser
\* reports, every frame lies inside the drawable area after
\* _calculate_layout (xpad <= x and x + width <= width - xpad) and no
\* category is wider than its owner, so a category frame retained by
\* _filter_by_minwidth has its owner retained too.
C30_InsideAreaAndOwnerRetained ==
    /\ LaidOut =>
          /\ \A f \in TreeFrames :
                /\ RLeq(RInt(xpad), f.x)
                /\ RLeq(RAdd(f.x, f.width), RInt(width - xpad))
          /\ \A k \in DOMAIN Owners : \A c \in DOMAIN Owners[k].children :
                RLeq(Owners[k].children[c].width, Owners[k].width)
    /\ pc = "filtered" =>
          \A k \in DOMAIN Owners : \A c \in DOMAIN Owners[k].children :
              IsRetained(Owners[k].children[c]) => IsRetained(Owners[k])

====
